---- MODULE Spec2Model ----
(***************************************************************************)
(* A model of dtoolkit: the flattened-device-tree reader (src/fdt), the    *)
(* owned tree (src/model) and its serializer (src/model/writer.rs).        *)
(*                                                                         *)
(* A buffer is a sequence of bytes (0..255); offset o of the Rust slice is *)
(* element o+1 of the sequence.  A str / String is the sequence of its     *)
(* bytes.  A u32 that is only compared (the magic, a token) is kept in its *)
(* four big-endian bytes; a u32 that is computed with (an offset, a size,  *)
(* a length) is an integer, and the inputs keep those below 2^31.          *)
(***************************************************************************)
EXTENDS Integers, Sequences, FiniteSets, TLC

VARIABLES
    data,       \* the byte buffer handed to Fdt::new
    fdtRes,     \* what Fdt::new returned for data, NoVal before the call
    tree,       \* the owned DeviceTree
    pc,         \* the step the run is at
    tree2,      \* what DeviceTree::from_fdt returned
    dtb2,       \* what to_dtb returned for tree2
    items,      \* the token stream an input blob was assembled from
    node,       \* the FdtNode being inspected
    piter,      \* its property iterator (FdtPropIter)
    citer,      \* its child iterator (FdtChildIter)
    pout,       \* what piter returned so far, in order
    cout,       \* what citer returned so far, in order
    panicked,   \* a call unwound through an expect()
    path,       \* the path last looked up
    found       \* the result of that lookup

vars == <<data, fdtRes, tree, pc, tree2, dtb2, items, node, piter, citer,
          pout, cout, panicked, path, found>>

NoVal == [none |-> TRUE]

----------------------------------------------------------------------------
(* Bytes and big-endian integers                                           *)

Byte == 0..255

RECURSIVE Zeros(_)
Zeros(n) == IF n <= 0 THEN <<>> ELSE <<0>> \o Zeros(n - 1)

\* u32::to_be_bytes
U32Bytes(n) ==
    <<(n \div 16777216) % 256, (n \div 65536) % 256, (n \div 256) % 256, n % 256>>

\* data[off .. off+len], a slice by offset and length
Slice(d, off, len) == SubSeq(d, off + 1, off + len)

\* big_endian::U32::get on the four bytes at off
Be32(d, off) ==
    ((d[off + 1] * 256 + d[off + 2]) * 256 + d[off + 3]) * 256 + d[off + 4]

\* Fdt::align_tag_offset: round up to a multiple of FDT_TAGSIZE
FDT_TAGSIZE == 4
AlignTagOffset(offset) == ((offset + FDT_TAGSIZE - 1) \div FDT_TAGSIZE) * FDT_TAGSIZE

----------------------------------------------------------------------------
(* The header: src/fdt/mod.rs                                              *)

FDT_VERSION == 17
\* 0xd00dfeed, big-endian
FDT_MAGIC == <<208, 13, 254, 237>>
\* size_of::<FdtHeader>(): ten packed big-endian u32
HeaderSize == 40

\* offset_of!(FdtHeader, field): the fields in declaration order
OffsetOf(field) ==
    CASE field = "magic" -> 0
      [] field = "totalsize" -> 4
      [] field = "off_dt_struct" -> 8
      [] field = "off_dt_strings" -> 12
      [] field = "off_mem_rsvmap" -> 16
      [] field = "version" -> 20
      [] field = "last_comp_version" -> 24
      [] field = "boot_cpuid_phys" -> 28
      [] field = "size_dt_strings" -> 32
      [] field = "size_dt_struct" -> 36

HeaderFields ==
    <<"magic", "totalsize", "off_dt_struct", "off_dt_strings", "off_mem_rsvmap",
      "version", "last_comp_version", "boot_cpuid_phys", "size_dt_strings",
      "size_dt_struct">>

\* FdtHeader::magic(), compared in its bytes
HdrMagic(d) == Slice(d, OffsetOf("magic"), 4)
\* FdtHeader::totalsize() and the other getters
Hdr(d, field) == Be32(d, OffsetOf(field))

Ok == [kind |-> "Ok", offset |-> 0, arg |-> 0]
Err(kind, offset, arg) == [kind |-> kind, offset |-> offset, arg |-> arg]

\* A mutant of ValidateHeader: the last check is missing.
ValidateHeaderNoOrder(d) ==
    LET off_mem_rsvmap == Hdr(d, "off_mem_rsvmap")
        off_dt_struct == Hdr(d, "off_dt_struct")
        off_dt_strings == Hdr(d, "off_dt_strings")
        size_dt_struct == Hdr(d, "size_dt_struct")
        size_dt_strings == Hdr(d, "size_dt_strings")
    IN  IF off_mem_rsvmap > off_dt_struct
        THEN Err("InvalidHeader", OffsetOf("off_mem_rsvmap"), "dt_struct not after memrsvmap")
        ELSE IF off_dt_struct > Len(d)
        THEN Err("InvalidHeader", OffsetOf("off_dt_struct"), "struct offset out of bounds")
        ELSE IF off_dt_strings > Len(d)
        THEN Err("InvalidHeader", OffsetOf("off_dt_strings"), "strings offset out of bounds")
        ELSE IF off_dt_struct + size_dt_struct > Len(d)
        THEN Err("InvalidHeader", OffsetOf("size_dt_struct"), "struct block overflows")
        ELSE IF off_dt_strings + size_dt_strings > Len(d)
        THEN Err("InvalidHeader", OffsetOf("size_dt_strings"), "strings block overflows")
        ELSE Ok

\* Fdt::validate_header.  The sums are of two u32 in a usize: saturating_add
\* never saturates on a 64-bit target, and on a 32-bit one a saturated sum is
\* usize::MAX > data.len(), the same verdict as the exact sum gives.
ValidateHeader(d) ==
    LET off_mem_rsvmap == Hdr(d, "off_mem_rsvmap")
        off_dt_struct == Hdr(d, "off_dt_struct")
        off_dt_strings == Hdr(d, "off_dt_strings")
        size_dt_struct == Hdr(d, "size_dt_struct")
        size_dt_strings == Hdr(d, "size_dt_strings")
    IN  IF off_mem_rsvmap > off_dt_struct
        THEN Err("InvalidHeader", OffsetOf("off_mem_rsvmap"), "dt_struct not after memrsvmap")
        ELSE IF off_dt_struct > Len(d)
        THEN Err("InvalidHeader", OffsetOf("off_dt_struct"), "struct offset out of bounds")
        ELSE IF off_dt_strings > Len(d)
        THEN Err("InvalidHeader", OffsetOf("off_dt_strings"), "strings offset out of bounds")
        ELSE IF off_dt_struct + size_dt_struct > Len(d)
        THEN Err("InvalidHeader", OffsetOf("size_dt_struct"), "struct block overflows")
        ELSE IF off_dt_strings + size_dt_strings > Len(d)
        THEN Err("InvalidHeader", OffsetOf("size_dt_strings"), "strings block overflows")
        ELSE IF off_dt_struct + size_dt_struct > off_dt_strings
        THEN Err("InvalidHeader", OffsetOf("off_dt_strings"), "strings block not after struct block")
        ELSE Ok

\* A mutant of FdtNew: every error is reported at offset 0.
FdtNewOffsetZero(d) ==
    IF Len(d) < HeaderSize
    THEN Err("InvalidLength", 0, 0)
    ELSE IF HdrMagic(d) # FDT_MAGIC
    THEN Err("InvalidMagic", 0, 0)
    ELSE IF ~(Hdr(d, "last_comp_version") <= FDT_VERSION /\ FDT_VERSION <= Hdr(d, "version"))
    THEN Err("UnsupportedVersion", 0, Hdr(d, "version"))
    ELSE IF Hdr(d, "totalsize") # Len(d)
    THEN Err("InvalidLength", 0, 0)
    ELSE [ValidateHeader(d) EXCEPT !.offset = 0]

\* Fdt::new
FdtNew(d) ==
    IF Len(d) < HeaderSize
    THEN Err("InvalidLength", 0, 0)
    ELSE IF HdrMagic(d) # FDT_MAGIC
    THEN Err("InvalidMagic", OffsetOf("magic"), 0)
    ELSE IF ~(Hdr(d, "last_comp_version") <= FDT_VERSION /\ FDT_VERSION <= Hdr(d, "version"))
    THEN Err("UnsupportedVersion", OffsetOf("version"), Hdr(d, "version"))
    ELSE IF Hdr(d, "totalsize") # Len(d)
    THEN Err("InvalidLength", OffsetOf("totalsize"), 0)
    ELSE ValidateHeader(d)

----------------------------------------------------------------------------
(* Buffers for the header checks: a header whose fields are drawn from     *)
(* small sets, followed by zero bytes, cut or padded to a chosen length.   *)

MagicSet == {FDT_MAGIC, <<0, 13, 254, 237>>}
TotalsizeSet == {60, 64}
OffRsvSet == {40, 41, 48, 64}
OffStructSet == {40, 42, 56, 68}
OffStringsSet == {44, 56, 60, 68}
VersionSet == {16, 17, 18}
LastCompSet == {16, 18}
SizeStructSet == {0, 4, 16}
SizeStringsSet == {0, 4, 8}
BufLenSet == {10, 40, 60, 64}

HeaderInput ==
    [magic : MagicSet, totalsize : TotalsizeSet, off_dt_struct : OffStructSet,
     off_dt_strings : OffStringsSet, off_mem_rsvmap : OffRsvSet,
     version : VersionSet, last_comp_version : LastCompSet,
     size_dt_strings : SizeStringsSet, size_dt_struct : SizeStructSet,
     len : BufLenSet]

\* The buffer of a header input: the ten fields in the order of FdtHeader
\* (src/fdt/mod.rs:32-53), boot_cpuid_phys 0, then zeros, len bytes in all.
HeaderBuffer(h) ==
    LET full == h.magic \o U32Bytes(h.totalsize) \o U32Bytes(h.off_dt_struct)
                \o U32Bytes(h.off_dt_strings) \o U32Bytes(h.off_mem_rsvmap)
                \o U32Bytes(h.version) \o U32Bytes(h.last_comp_version)
                \o U32Bytes(0) \o U32Bytes(h.size_dt_strings)
                \o U32Bytes(h.size_dt_struct) \o Zeros(h.len - HeaderSize)
    IN  SubSeq(full, 1, h.len)

----------------------------------------------------------------------------
(* The owned tree: src/model                                               *)

\* DeviceTreeNode::new(name): no properties, no children
NewNode(name) == [name |-> name, properties |-> <<>>, children |-> <<>>]

\* "/" as bytes
SLASH == 47
\* "@" as bytes
AT == 64

\* DeviceTree::new (src/model/mod.rs:60-65)
NewDeviceTree == [root |-> NewNode(<<SLASH>>), memory_reservations |-> <<>>]

\* MemoryReservation: two big_endian::U64, kept as their bytes
\* (src/memreserve.rs:28-31).  MemoryReservation::new for values below 2^31.
U64Bytes(n) == <<0, 0, 0, 0>> \o U32Bytes(n)
MemoryReservationNew(address, size) ==
    [address |-> U64Bytes(address), size |-> U64Bytes(size)]
\* A mutant of TERMINATOR: an entry with a zero address and a size
TerminatorWithSize == MemoryReservationNew(0, 32)

\* MemoryReservation::TERMINATOR
TERMINATOR == MemoryReservationNew(0, 0)
\* size_of::<MemoryReservation>()
MemRsvSize == 16
\* IntoBytes::as_bytes of a reservation
RsvAsBytes(r) == r.address \o r.size

\* DeviceTreeProperty::new
NewProperty(name, value) == [name |-> name, value |-> value]

\* DeviceTreeNode::add_property: the properties are an ordered sequence
AddPropertyTo(n, prop) == [n EXCEPT !.properties = Append(@, prop)]

\* DeviceTreeNode::add_child: the children are a map keyed by the full name that
\* keeps insertion order; a child of the same name is replaced in its place.
AddChildTo(n, child) ==
    IF \E i \in 1..Len(n.children) : n.children[i].name = child.name
    THEN [n EXCEPT !.children =
            [i \in 1..Len(@) |-> IF @[i].name = child.name THEN child ELSE @[i]]]
    ELSE [n EXCEPT !.children = Append(@, child)]

\* The node reached from n by a sequence of child positions.
RECURSIVE NodeAt(_, _)
NodeAt(n, p) == IF p = <<>> THEN n ELSE NodeAt(n.children[Head(p)], Tail(p))

\* n with the node at p replaced by new.
RECURSIVE ReplaceAt(_, _, _)
ReplaceAt(n, p, new) ==
    IF p = <<>> THEN new
    ELSE [n EXCEPT !.children[Head(p)] = ReplaceAt(@, Tail(p), new)]

\* The positions of all nodes of the tree under n.
RECURSIVE AllPaths(_)
AllPaths(n) ==
    {<<>>} \cup UNION {{<<i>> \o q : q \in AllPaths(n.children[i])} :
                        i \in 1..Len(n.children)}

\* The number of nodes below n plus the number of properties in the tree.
RECURSIVE SumSeq(_)
SumSeq(s) == IF s = <<>> THEN 0 ELSE Head(s) + SumSeq(Tail(s))
RECURSIVE NodeCount(_)
NodeCount(n) ==
    Len(n.properties) + SumSeq([i \in 1..Len(n.children) |-> 1 + NodeCount(n.children[i])])

----------------------------------------------------------------------------
(* The serializer: src/model/writer.rs                                     *)

LAST_VERSION == 17
LAST_COMP_VERSION == 16
FDT_BEGIN_NODE == 1
FDT_END_NODE == 2
FDT_PROP == 3
FDT_NOP == 4
FDT_END == 9

\* StringMap::new: the map is a set of <<key, offset>> pairs
StringMapNew == [string_map |-> {}, next_offset |-> 0]

\* A mutant of StringMapInsert: a key already in the map is given a new offset.
StringMapInsertAgain(sm, key) ==
    [string_map |-> sm.string_map \cup {<<key, sm.next_offset>>},
     next_offset |-> sm.next_offset + Len(key) + 1]

\* StringMap::insert
StringMapInsert(sm, key) ==
    IF \E e \in sm.string_map : e[1] = key
    THEN sm
    ELSE [string_map |-> sm.string_map \cup {<<key, sm.next_offset>>},
          next_offset |-> sm.next_offset + Len(key) + 1]

\* StringMap::get_offset
StringMapGetOffset(sm, key) == (CHOOSE e \in sm.string_map : e[1] = key)[2]

\* A mutant of WriteStringBlock: the strings are written in the order of the
\* keys of the BTreeMap, not sorted by offset.
RECURSIVE SeqLess(_, _)
SeqLess(a, b) ==
    IF a = <<>> THEN b # <<>>
    ELSE IF b = <<>> THEN FALSE
    ELSE IF Head(a) # Head(b) THEN Head(a) < Head(b)
    ELSE SeqLess(Tail(a), Tail(b))
RECURSIVE WriteStringsByKey(_, _)
WriteStringsByKey(entries, dtb) ==
    IF entries = {} THEN dtb
    ELSE LET e == CHOOSE x \in entries : \A y \in entries : x = y \/ SeqLess(x[1], y[1])
         IN  WriteStringsByKey(entries \ {e}, dtb \o e[1] \o <<0>>)
WriteStringBlockByKey(sm, dtb) == WriteStringsByKey(sm.string_map, dtb)

\* StringMap::write_string_block: the entries sorted by offset, each followed
\* by a NUL
RECURSIVE WriteStringsByOffset(_, _)
WriteStringsByOffset(entries, dtb) ==
    IF entries = {} THEN dtb
    ELSE LET e == CHOOSE x \in entries : \A y \in entries : x[2] <= y[2]
         IN  WriteStringsByOffset(entries \ {e}, dtb \o e[1] \o <<0>>)
WriteStringBlock(sm, dtb) == WriteStringsByOffset(sm.string_map, dtb)

\* A mutant of CalculatePropSize: the padding of the value is not counted.
CalculatePropSizeUnpadded(sm, prop) ==
    [size |-> FDT_TAGSIZE + 4 + 4 + Len(prop.value),
     sm |-> StringMapInsert(sm, prop.name)]

\* DeviceTree::calculate_prop_size: [size, string_map]
CalculatePropSize(sm, prop) ==
    [size |-> FDT_TAGSIZE + 4 + 4 + AlignTagOffset(Len(prop.value)),
     sm |-> StringMapInsert(sm, prop.name)]

\* DeviceTree::calculate_node_size: [size, string_map]
RECURSIVE CalculateNodeSize(_, _), CalculatePropsFrom(_, _, _), CalculateChildrenFrom(_, _, _)
CalculatePropsFrom(acc, props, i) ==
    IF i > Len(props) THEN acc
    ELSE LET r == CalculatePropSize(acc.sm, props[i])
         IN  CalculatePropsFrom([size |-> acc.size + r.size, sm |-> r.sm], props, i + 1)
CalculateChildrenFrom(acc, children, i) ==
    IF i > Len(children) THEN acc
    ELSE LET r == CalculateNodeSize(acc.sm, children[i])
         IN  CalculateChildrenFrom([size |-> acc.size + r.size, sm |-> r.sm], children, i + 1)
CalculateNodeSize(sm, n) ==
    LET begin == [size |-> FDT_TAGSIZE + AlignTagOffset(Len(n.name) + 1), sm |-> sm]
        props == CalculatePropsFrom(begin, n.properties, 1)
        kids == CalculateChildrenFrom(props, n.children, 1)
    IN  [size |-> kids.size + FDT_TAGSIZE, sm |-> kids.sm]

\* DeviceTree::generate_header: [header, string_map]
GenerateHeader(t, string_map) ==
    LET mem_reservations_size == (Len(t.memory_reservations) + 1) * MemRsvSize
        calc == CalculateNodeSize(string_map, t.root)
        dt_struct_size == calc.size + FDT_TAGSIZE
        dt_strings_size == calc.sm.next_offset
        off_mem_rsvmap == HeaderSize
        off_dt_struct == off_mem_rsvmap + mem_reservations_size
        off_dt_strings == off_dt_struct + dt_struct_size
        totalsize == off_dt_strings + dt_strings_size
    IN  [header |-> [magic |-> FDT_MAGIC,
                     totalsize |-> totalsize,
                     off_dt_struct |-> off_dt_struct,
                     off_dt_strings |-> off_dt_strings,
                     off_mem_rsvmap |-> off_mem_rsvmap,
                     version |-> LAST_VERSION,
                     last_comp_version |-> LAST_COMP_VERSION,
                     boot_cpuid_phys |-> 0,
                     size_dt_strings |-> totalsize - off_dt_strings,
                     size_dt_struct |-> off_dt_strings - off_dt_struct],
         sm |-> calc.sm]

\* FdtHeader as_bytes: the packed fields in declaration order
HeaderAsBytes(h) ==
    h.magic \o U32Bytes(h.totalsize) \o U32Bytes(h.off_dt_struct)
    \o U32Bytes(h.off_dt_strings) \o U32Bytes(h.off_mem_rsvmap)
    \o U32Bytes(h.version) \o U32Bytes(h.last_comp_version)
    \o U32Bytes(h.boot_cpuid_phys) \o U32Bytes(h.size_dt_strings)
    \o U32Bytes(h.size_dt_struct)

\* DeviceTree::align: zero bytes up to a multiple of 4 of the buffer's length
Align(vec) == vec \o Zeros(AlignTagOffset(Len(vec)) - Len(vec))

\* DeviceTree::write_memory_reservations
RECURSIVE WriteReservationsFrom(_, _, _)
WriteReservationsFrom(dtb, reservations, i) ==
    IF i > Len(reservations) THEN dtb
    ELSE WriteReservationsFrom(dtb \o RsvAsBytes(reservations[i]), reservations, i + 1)
\* A mutant of WriteMemoryReservations: the terminator is not written.
WriteReservationsNoTerminator(dtb, reservations) ==
    WriteReservationsFrom(dtb, reservations, 1)

\* DeviceTree::write_memory_reservations
WriteMemoryReservations(dtb, reservations) ==
    WriteReservationsFrom(dtb, reservations, 1) \o RsvAsBytes(TERMINATOR)

\* A mutant of WriteProp: the value is not padded to the next tag.
WritePropUnaligned(dtb, string_map, prop) ==
    dtb \o U32Bytes(FDT_PROP) \o U32Bytes(Len(prop.value))
        \o U32Bytes(StringMapGetOffset(string_map, prop.name)) \o prop.value

\* DeviceTree::write_prop
WriteProp(dtb, string_map, prop) ==
    Align(dtb \o U32Bytes(FDT_PROP) \o U32Bytes(Len(prop.value))
              \o U32Bytes(StringMapGetOffset(string_map, prop.name)) \o prop.value)

\* DeviceTree::write_node
RECURSIVE WriteNode(_, _, _), WritePropsFrom(_, _, _, _), WriteChildrenFrom(_, _, _, _)
WritePropsFrom(dtb, string_map, props, i) ==
    IF i > Len(props) THEN dtb
    ELSE WritePropsFrom(WriteProp(dtb, string_map, props[i]), string_map, props, i + 1)
WriteChildrenFrom(dtb, string_map, children, i) ==
    IF i > Len(children) THEN dtb
    ELSE WriteChildrenFrom(WriteNode(dtb, string_map, children[i]), string_map, children, i + 1)
\* A mutant of WriteNode: the child subtrees are written before the properties.
WriteNodeChildrenFirst(dtb, string_map, n) ==
    LET begin == Align(dtb \o U32Bytes(FDT_BEGIN_NODE) \o n.name \o <<0>>)
        kids == WriteChildrenFrom(begin, string_map, n.children, 1)
        props == WritePropsFrom(kids, string_map, n.properties, 1)
    IN  props \o U32Bytes(FDT_END_NODE)

WriteNode(dtb, string_map, n) ==
    LET begin == Align(dtb \o U32Bytes(FDT_BEGIN_NODE) \o n.name \o <<0>>)
        props == WritePropsFrom(begin, string_map, n.properties, 1)
        kids == WriteChildrenFrom(props, string_map, n.children, 1)
    IN  kids \o U32Bytes(FDT_END_NODE)

\* DeviceTree::write_root
WriteRoot(dtb, string_map, root_node) ==
    WriteNode(dtb, string_map, root_node) \o U32Bytes(FDT_END)

\* DeviceTree::to_dtb
ToDtb(t) ==
    LET gen == GenerateHeader(t, StringMapNew)
        dtb0 == HeaderAsBytes(gen.header)
        dtb1 == WriteMemoryReservations(dtb0, t.memory_reservations)
        dtb2_ == WriteRoot(dtb1, gen.sm, t.root)
    IN  WriteStringBlock(gen.sm, dtb2_)

----------------------------------------------------------------------------
(* Reading the structure block.  Results are records: ok with a value, or   *)
(* an error kind.  A failed .expect("Fdt should be valid") is a panic.      *)

\* let x = v; body: v is evaluated once and the body sees its value.
Bind(v, F(_)) == CHOOSE r \in {F(x) : x \in {v}} : TRUE

Good(v) == [ok |-> TRUE, val |-> v]
Bad(e) == [ok |-> FALSE, err |-> e]

TokenValues == {FDT_BEGIN_NODE, FDT_END_NODE, FDT_PROP, FDT_NOP, FDT_END}
StructEnd(d) == Hdr(d, "off_dt_struct") + Hdr(d, "size_dt_struct")

\* Fdt::read_token: the big-endian word at the offset; an offset whose word is
\* not wholly inside the structure block is InvalidOffset, an unknown word is
\* BadToken.
ReadToken(d, offset) ==
    IF offset < 0 \/ offset + FDT_TAGSIZE > Len(d) \/ offset + FDT_TAGSIZE > StructEnd(d)
    THEN Bad("InvalidOffset")
    ELSE LET w == Slice(d, offset, FDT_TAGSIZE)
         IN  IF \E t \in TokenValues : w = U32Bytes(t)
             THEN Good(CHOOSE t \in TokenValues : w = U32Bytes(t))
             ELSE Bad("BadToken")

\* The offset of the first NUL at or after the offset, or -1.
RECURSIVE FindNul(_, _, _)
FindNul(d, offset, end) ==
    IF offset >= end THEN -1
    ELSE IF d[offset + 1] = 0 THEN offset
    ELSE FindNul(d, offset + 1, end)

\* Fdt::find_string_end: the offset just past the NUL of the string at the offset
FindStringEnd(d, start) ==
    LET nul == FindNul(d, start, Len(d))
    IN  IF start < 0 \/ start > Len(d) THEN Bad("InvalidOffset")
        ELSE IF nul < 0 THEN Bad("InvalidString")
        ELSE Good(nul + 1)

\* Fdt::string_at_offset: the string at the offset, ending before `end` (the
\* end of the buffer when end is NoEnd); the bytes must be valid text.
NoEnd == -1
StringAtOffset(d, offset, end) ==
    LET lim == IF end = NoEnd THEN Len(d) ELSE end
        nul == FindNul(d, offset, lim)
    IN  IF offset < 0 \/ lim > Len(d) \/ offset > lim THEN Bad("InvalidOffset")
        ELSE IF nul < 0 THEN Bad("InvalidString")
        ELSE IF \E i \in offset + 1..nul : d[i] >= 128 THEN Bad("InvalidString")
        ELSE Good(Slice(d, offset, nul - offset))

\* Fdt::string: the string at an offset of the strings block, bounded by
\* size_dt_strings
FdtString(d, string_offset) ==
    LET start == Hdr(d, "off_dt_strings") + string_offset
        end == Hdr(d, "off_dt_strings") + Hdr(d, "size_dt_strings")
    IN  IF string_offset < 0 \/ string_offset >= Hdr(d, "size_dt_strings")
        THEN Bad("InvalidOffset")
        ELSE StringAtOffset(d, start, end)

\* Fdt::next_property_offset: the offset just past the property whose length
\* word is at the offset, padded to the next tag.
NextPropertyOffset(d, offset) ==
    IF offset < 0 \/ offset + 8 > Len(d) \/ offset + 8 > StructEnd(d)
    THEN Bad("InvalidOffset")
    ELSE LET len == Be32(d, offset)
             next == AlignTagOffset(offset + 8 + len)
         IN  IF next > StructEnd(d) THEN Bad("InvalidOffset") ELSE Good(next)

\* Fdt::next_sibling_offset: from a BEGIN_NODE, walk the tokens with a depth
\* counter up to the END_NODE that brings the depth back to 0; the result is
\* the offset after it.  END at a positive depth, and END_NODE or a property
\* at depth 0, are BadToken.
RECURSIVE SkipSubtree(_, _, _)
SkipSubtree(d, offset, depth) ==
    LET t == ReadToken(d, offset)
    IN  IF ~t.ok THEN t
        ELSE IF t.val = FDT_BEGIN_NODE THEN
            LET e == FindStringEnd(d, offset + FDT_TAGSIZE)
            IN  IF ~e.ok THEN e ELSE SkipSubtree(d, AlignTagOffset(e.val), depth + 1)
        ELSE IF t.val = FDT_END_NODE THEN
            IF depth = 0 THEN Bad("BadToken")
            ELSE IF depth = 1 THEN Good(offset + FDT_TAGSIZE)
            ELSE SkipSubtree(d, offset + FDT_TAGSIZE, depth - 1)
        ELSE IF t.val = FDT_PROP THEN
            IF depth = 0 THEN Bad("BadToken")
            ELSE LET n == NextPropertyOffset(d, offset + FDT_TAGSIZE)
                 IN  IF ~n.ok THEN n ELSE SkipSubtree(d, n.val, depth)
        ELSE IF t.val = FDT_NOP THEN SkipSubtree(d, offset + FDT_TAGSIZE, depth)
        ELSE Bad("BadToken")
NextSiblingOffset(d, offset) == SkipSubtree(d, offset, 0)

\* FdtNode::new: a node is the offset of its BEGIN_NODE and the address space
\* of its parent (AddressSpace::default is 2 address cells and 1 size cell).
AddressSpaceDefault == [address_cells |-> 2, size_cells |-> 1]
FdtNodeNew(offset) == [offset |-> offset, parent_address_space |-> AddressSpaceDefault]

\* Fdt::root: the node at off_dt_struct
FdtRoot(d) == Good(FdtNodeNew(Hdr(d, "off_dt_struct")))

\* FdtNode::name: a result, or a panic where the code expects
FdtNodeName(d, n) ==
    LET r == StringAtOffset(d, n.offset + FDT_TAGSIZE, NoEnd)
    IN  IF r.ok THEN [panic |-> FALSE, val |-> r.val] ELSE [panic |-> TRUE, val |-> NoVal]

----------------------------------------------------------------------------
(* The iterators: src/fdt/property.rs and src/fdt/node.rs.  A step returns  *)
(* [panic, item, offset]: the item is NoVal for None, and the offset is the *)
(* cursor the step leaves in the iterator.                                  *)

Step(item, offset) == [panic |-> FALSE, item |-> item, offset |-> offset]
Panic(offset) == [panic |-> TRUE, item |-> NoVal, offset |-> offset]

\* A mutant of NextProp: the cursor is moved past the value without padding
\* it to the next tag.
RECURSIVE NextPropUnaligned(_, _)
NextPropUnaligned(d, offset) ==
    LET token == ReadToken(d, offset)
    IN  IF ~token.ok THEN Panic(offset)
        ELSE IF token.val = FDT_PROP THEN
            IF offset + 3 * FDT_TAGSIZE > Len(d) THEN Panic(offset)
            ELSE LET len == Be32(d, offset + FDT_TAGSIZE)
                     nameoff == Be32(d, offset + 2 * FDT_TAGSIZE)
                     prop_offset == offset + 3 * FDT_TAGSIZE
                     name == FdtString(d, nameoff)
                 IN  IF ~name.ok \/ prop_offset + len > Len(d) THEN Panic(prop_offset + len)
                     ELSE Step([name |-> name.val, value |-> Slice(d, prop_offset, len),
                                value_offset |-> prop_offset], prop_offset + len)
        ELSE IF token.val = FDT_NOP THEN NextPropUnaligned(d, offset + FDT_TAGSIZE)
        ELSE Step(NoVal, offset)

\* A mutant of NextProp: the cursor is left after the token that stops the
\* walk.
RECURSIVE NextPropPastStop(_, _)
NextPropPastStop(d, offset) ==
    LET token == ReadToken(d, offset)
    IN  IF ~token.ok THEN Panic(offset)
        ELSE IF token.val = FDT_PROP THEN
            IF offset + 3 * FDT_TAGSIZE > Len(d) THEN Panic(offset)
            ELSE LET len == Be32(d, offset + FDT_TAGSIZE)
                     nameoff == Be32(d, offset + 2 * FDT_TAGSIZE)
                     prop_offset == offset + 3 * FDT_TAGSIZE
                     next == AlignTagOffset(prop_offset + len)
                     name == FdtString(d, nameoff)
                 IN  IF ~name.ok \/ prop_offset + len > Len(d) THEN Panic(next)
                     ELSE Step([name |-> name.val, value |-> Slice(d, prop_offset, len),
                                value_offset |-> prop_offset], next)
        ELSE IF token.val = FDT_NOP THEN NextPropPastStop(d, offset + FDT_TAGSIZE)
        ELSE Step(NoVal, offset + FDT_TAGSIZE)

\* FdtPropIter::next_prop
RECURSIVE NextProp(_, _)
NextProp(d, offset) ==
    LET token == ReadToken(d, offset)
    IN  IF ~token.ok THEN Panic(offset)
        ELSE IF token.val = FDT_PROP THEN
            IF offset + 3 * FDT_TAGSIZE > Len(d) THEN Panic(offset)
            ELSE LET len == Be32(d, offset + FDT_TAGSIZE)
                     nameoff == Be32(d, offset + 2 * FDT_TAGSIZE)
                     prop_offset == offset + 3 * FDT_TAGSIZE
                     next == AlignTagOffset(prop_offset + len)
                     name == FdtString(d, nameoff)
                 IN  IF ~name.ok \/ prop_offset + len > Len(d) THEN Panic(next)
                     ELSE Step([name |-> name.val, value |-> Slice(d, prop_offset, len),
                                value_offset |-> prop_offset], next)
        ELSE IF token.val = FDT_NOP THEN NextProp(d, offset + FDT_TAGSIZE)
        ELSE Step(NoVal, offset)

\* The iterator values: FdtPropIter::Start / Running, FdtChildIter::Start /
\* Running.  A child iterator at Start holds its node.
PropStart(n) == [st |-> "Start", offset |-> n.offset]
PropRunning(offset) == [st |-> "Running", offset |-> offset]
ChildStart(n) == [st |-> "Start", offset |-> n.offset, address_space |-> n.parent_address_space]
ChildRunning(offset, as) == [st |-> "Running", offset |-> offset, address_space |-> as]

\* FdtPropIter::next
PropIterNext(d, it) ==
    IF it.st = "Start"
    THEN LET e == FindStringEnd(d, it.offset + FDT_TAGSIZE)
         IN  IF ~e.ok THEN Panic(it.offset) ELSE NextProp(d, AlignTagOffset(e.val))
    ELSE NextProp(d, it.offset)

\* FdtNode::property: properties().find(name)
RECURSIVE FindPropertyFrom(_, _, _)
FindPropertyFrom(d, it, name) ==
    Bind(PropIterNext(d, it), LAMBDA r :
        IF r.panic \/ r.item = NoVal THEN r
        ELSE IF r.item.name = name THEN r
        ELSE FindPropertyFrom(d, PropRunning(r.offset), name))
FdtNodeProperty(d, n, name) == FindPropertyFrom(d, PropStart(n), name)

\* A mutant of AsU32: the first four bytes of a longer value are read.
AsU32Prefix(value) == IF Len(value) >= 4 THEN Good(Be32(value, 0)) ELSE Bad("InvalidLength")

\* Property::as_u32
AsU32(value) == IF Len(value) = 4 THEN Good(Be32(value, 0)) ELSE Bad("InvalidLength")

\* Property::as_u64.  The u64 is kept as its four 16-bit digits, the most
\* significant first.
AsU64(value) ==
    IF Len(value) = 8
    THEN Good([i \in 1..4 |-> value[2 * i - 1] * 256 + value[2 * i]])
    ELSE Bad("InvalidLength")

\* core::str::from_utf8: the bytes from position i on are well-formed UTF-8
RECURSIVE IsUtf8(_, _)
IsUtf8(b, i) ==
    LET Cont(k) == k <= Len(b) /\ b[k] >= 128 /\ b[k] <= 191
        In(k, lo, hi) == k <= Len(b) /\ b[k] >= lo /\ b[k] <= hi
    IN  IF i > Len(b) THEN TRUE
        ELSE IF b[i] < 128 THEN IsUtf8(b, i + 1)
        ELSE IF b[i] >= 194 /\ b[i] <= 223 THEN Cont(i + 1) /\ IsUtf8(b, i + 2)
        ELSE IF b[i] = 224 THEN In(i + 1, 160, 191) /\ Cont(i + 2) /\ IsUtf8(b, i + 3)
        ELSE IF b[i] = 237 THEN In(i + 1, 128, 159) /\ Cont(i + 2) /\ IsUtf8(b, i + 3)
        ELSE IF b[i] >= 225 /\ b[i] <= 239
        THEN Cont(i + 1) /\ Cont(i + 2) /\ IsUtf8(b, i + 3)
        ELSE IF b[i] = 240
        THEN In(i + 1, 144, 191) /\ Cont(i + 2) /\ Cont(i + 3) /\ IsUtf8(b, i + 4)
        ELSE IF b[i] >= 241 /\ b[i] <= 243
        THEN Cont(i + 1) /\ Cont(i + 2) /\ Cont(i + 3) /\ IsUtf8(b, i + 4)
        ELSE IF b[i] = 244
        THEN In(i + 1, 128, 143) /\ Cont(i + 2) /\ Cont(i + 3) /\ IsUtf8(b, i + 4)
        ELSE FALSE

\* CStr::from_bytes_with_nul: the first NUL of the bytes is their last byte
CStrFromBytesWithNul(bytes) ==
    IF \E i \in 1..Len(bytes) : bytes[i] = 0 /\ i = Len(bytes)
                                  /\ \A j \in 1..i - 1 : bytes[j] # 0
    THEN Good(SubSeq(bytes, 1, Len(bytes) - 1))
    ELSE Bad("FromBytesWithNulError")

\* A mutant of AsStr: the string ends at the first NUL of the value.
AsStrToFirstNul(value) ==
    IF \E i \in 1..Len(value) : value[i] = 0
    THEN LET s == SubSeq(value, 1, (CHOOSE i \in 1..Len(value) :
                          value[i] = 0 /\ \A j \in 1..i - 1 : value[j] # 0) - 1)
         IN  IF IsUtf8(s, 1) THEN Good(s) ELSE Bad("InvalidString")
    ELSE Bad("InvalidString")

\* Property::as_str
AsStr(value) ==
    LET cstr == CStrFromBytesWithNul(value)
    IN  IF ~cstr.ok THEN Bad("InvalidString")
        ELSE IF ~IsUtf8(cstr.val, 1) THEN Bad("InvalidString")
        ELSE Good(cstr.val)

\* usize::is_multiple_of: only 0 is a multiple of 0
IsMultipleOf(n, rhs) == IF rhs = 0 THEN n = 0 ELSE n % rhs = 0

\* cells.split_at(field_cells) for each field in turn: the fields of one chunk
\* of words
SplitFields(words, fields_cells) ==
    [i \in 1..Len(fields_cells) |->
        SubSeq(words, SumSeq(SubSeq(fields_cells, 1, i - 1)) + 1,
                      SumSeq(SubSeq(fields_cells, 1, i)))]

\* <[big_endian::U32]>::ref_from_bytes: the words of a chunk, each kept as its
\* four bytes
RefFromBytes(chunk) == [w \in 1..(Len(chunk) \div 4) |-> SubSeq(chunk, 4 * w - 3, 4 * w)]

\* A mutant of AsPropEncodedArray: the error carries the chunk size in bytes.
AsPropEncodedArrayChunkBytes(value, fields_cells) ==
    LET chunk_cells == SumSeq(fields_cells)
        chunk_bytes == chunk_cells * 4
    IN  IF ~IsMultipleOf(Len(value), chunk_bytes)
        THEN [kind |-> "PropEncodedArraySizeMismatch", val |-> <<>>,
              size |-> Len(value), chunk |-> chunk_bytes]
        ELSE IF chunk_bytes = 0
        THEN [kind |-> "Panic", val |-> <<>>, size |-> 0, chunk |-> 0]
        ELSE [kind |-> "Ok", size |-> 0, chunk |-> 0,
              val |-> [j \in 1..(Len(value) \div chunk_bytes) |->
                         SplitFields(RefFromBytes(SubSeq(value, (j - 1) * chunk_bytes + 1,
                                                         j * chunk_bytes)),
                                     fields_cells)]]

\* Property::as_prop_encoded_array, its iterator collected: [kind, val, size,
\* chunk].  slice::chunks_exact panics on a chunk size of 0.
AsPropEncodedArray(value, fields_cells) ==
    LET chunk_cells == SumSeq(fields_cells)
        chunk_bytes == chunk_cells * 4
    IN  IF ~IsMultipleOf(Len(value), chunk_bytes)
        THEN [kind |-> "PropEncodedArraySizeMismatch", val |-> <<>>,
              size |-> Len(value), chunk |-> chunk_cells]
        ELSE IF chunk_bytes = 0
        THEN [kind |-> "Panic", val |-> <<>>, size |-> 0, chunk |-> 0]
        ELSE [kind |-> "Ok", size |-> 0, chunk |-> 0,
              val |-> [j \in 1..(Len(value) \div chunk_bytes) |->
                         SplitFields(RefFromBytes(SubSeq(value, (j - 1) * chunk_bytes + 1,
                                                         j * chunk_bytes)),
                                     fields_cells)]]

\* An unsigned integer of a type T is kept as its bits, the most significant
\* first, so that shifts and ors are exact at every width.
BitsOfByte(b) == [i \in 1..8 |-> (b \div (2 ^ (8 - i))) % 2]
BitsOf(bytes) == [i \in 1..8 * Len(bytes) |-> BitsOfByte(bytes[(i + 7) \div 8])[((i - 1) % 8) + 1]]
\* T::default() and T::from(u32) for a T of size_of_t bytes
IntDefault(size_of_t) == [i \in 1..8 * size_of_t |-> 0]
IntFromU32(size_of_t, cell) == [i \in 1..8 * size_of_t - 32 |-> 0] \o BitsOf(cell)
\* value << n and a | b
Shl(value, n) == SubSeq(value, n + 1, Len(value)) \o [i \in 1..n |-> 0]
BitOr(a, b) == [i \in 1..Len(a) |-> IF a[i] = 1 \/ b[i] = 1 THEN 1 ELSE 0]

\* for cell in cells { value = value << shift | cell.get().into() }
RECURSIVE AccumulateCells(_, _, _, _, _)
AccumulateCells(value, cells, i, shift, size_of_t) ==
    IF i > Len(cells) THEN value
    ELSE AccumulateCells(BitOr(Shl(value, shift), IntFromU32(size_of_t, cells[i])),
                         cells, i + 1, shift, size_of_t)

\* The three conversions: [ok, val] or [ok, err, cells]
TooMany(kind, cells) == [ok |-> FALSE, err |-> kind, cells |-> Len(cells)]

\* Cells::to_int::<T>
CellsToInt(cells, size_of_t) ==
    IF size_of_t < Len(cells) * 4 THEN TooMany("TooManyCells", cells)
    ELSE IF Len(cells) = 1 THEN Good(IntFromU32(size_of_t, cells[1]))
    ELSE Good(AccumulateCells(IntDefault(size_of_t), cells, 1, 32, size_of_t))

\* Reg::address::<T>
RegAddress(reg, size_of_t) ==
    IF size_of_t < Len(reg.address) * 4 THEN TooMany("AddressTooBig", reg.address)
    ELSE IF Len(reg.address) = 1 THEN Good(IntFromU32(size_of_t, reg.address[1]))
    ELSE Good(AccumulateCells(IntDefault(size_of_t), reg.address, 1, 32, size_of_t))

\* Reg::size::<T>: the shift is size_of::<u32>()
RegSize(reg, size_of_t) ==
    IF size_of_t < Len(reg.size) * 4 THEN TooMany("SizeTooBig", reg.size)
    ELSE IF Len(reg.size) = 1 THEN Good(IntFromU32(size_of_t, reg.size[1]))
    ELSE Good(AccumulateCells(IntDefault(size_of_t), reg.size, 1, 4, size_of_t))

\* CStr::from_bytes_until_nul: the bytes before the first NUL
CStrFromBytesUntilNul(bytes) ==
    IF \E i \in 1..Len(bytes) : bytes[i] = 0
    THEN Good(SubSeq(bytes, 1, (CHOOSE i \in 1..Len(bytes) :
                          bytes[i] = 0 /\ \A j \in 1..i - 1 : bytes[j] # 0) - 1))
    ELSE Bad("FromBytesUntilNulError")

\* A mutant of StringListNext: an empty string ends the list.
StringListNextStopAtEmpty(value) ==
    IF value = <<>> \/ value[1] = 0 THEN [item |-> NoVal, value |-> value]
    ELSE LET cstr == CStrFromBytesUntilNul(value)
         IN  IF ~cstr.ok THEN [item |-> NoVal, value |-> value]
             ELSE IF ~IsUtf8(cstr.val, 1) THEN [item |-> NoVal, value |-> value]
             ELSE [item |-> [some |-> cstr.val],
                   value |-> SubSeq(value, Len(cstr.val) + 2, Len(value))]

\* FdtStringListIterator::next: [item, value], the item and the iterator's
\* value after the call
StringListNext(value) ==
    IF value = <<>> THEN [item |-> NoVal, value |-> value]
    ELSE LET cstr == CStrFromBytesUntilNul(value)
         IN  IF ~cstr.ok THEN [item |-> NoVal, value |-> value]
             ELSE IF ~IsUtf8(cstr.val, 1) THEN [item |-> NoVal, value |-> value]
             ELSE [item |-> [some |-> cstr.val],
                   value |-> SubSeq(value, Len(cstr.val) + 2, Len(value))]

ADDRESS_CELLS_NAME == <<35, 97, 100, 100, 114, 101, 115, 115, 45, 99, 101, 108, 108, 115>>
SIZE_CELLS_NAME == <<35, 115, 105, 122, 101, 45, 99, 101, 108, 108, 115>>
DEFAULT_ADDRESS_CELLS == 2
DEFAULT_SIZE_CELLS == 1

\* FdtNode::address_cells / size_cells followed by unwrap_or(default)
CellsOr(d, n, name, default) ==
    Bind(FdtNodeProperty(d, n, name), LAMBDA p :
        IF p.panic THEN [panic |-> TRUE, val |-> default]
        ELSE IF p.item = NoVal THEN [panic |-> FALSE, val |-> default]
        ELSE LET v == AsU32(p.item.value)
             IN  [panic |-> FALSE, val |-> IF v.ok THEN v.val ELSE default])

\* FdtNode::address_space
FdtNodeAddressSpace(d, n) ==
    Bind(CellsOr(d, n, ADDRESS_CELLS_NAME, DEFAULT_ADDRESS_CELLS), LAMBDA a :
    Bind(CellsOr(d, n, SIZE_CELLS_NAME, DEFAULT_SIZE_CELLS), LAMBDA z :
        [panic |-> a.panic \/ z.panic,
         val |-> [address_cells |-> a.val, size_cells |-> z.val]]))

REG_NAME == <<114, 101, 103>>

NoReg == [kind |-> "None", val |-> <<>>, size |-> 0, chunk |-> 0]
RegPanic == [kind |-> "Panic", val |-> <<>>, size |-> 0, chunk |-> 0]

\* A mutant of FdtNodeReg: the value is split by the node's own
\* #address-cells and #size-cells.
FdtNodeRegOwnCells(d, n) ==
    Bind(FdtNodeProperty(d, n, REG_NAME), LAMBDA p :
    Bind(FdtNodeAddressSpace(d, n), LAMBDA own :
        IF p.panic \/ own.panic THEN RegPanic
        ELSE IF p.item = NoVal THEN NoReg
        ELSE AsPropEncodedArray(p.item.value,
                                <<own.val.address_cells, own.val.size_cells>>)))

\* FdtNode::reg: the tuples of the "reg" property, each <<address, size>>
\* (Reg::from_cells takes the two fields of a chunk as they are)
FdtNodeReg(d, n) ==
    Bind(FdtNodeProperty(d, n, REG_NAME), LAMBDA p :
        IF p.panic THEN RegPanic
        ELSE IF p.item = NoVal THEN NoReg
        ELSE AsPropEncodedArray(p.item.value,
                                <<n.parent_address_space.address_cells,
                                  n.parent_address_space.size_cells>>))

\* A mutant of TryNext: END_NODE is skipped like NOP, so the walk leaves the
\* node.
RECURSIVE TryNextPastEnd(_, _, _)
TryNextPastEnd(d, offset, parent_address_space) ==
    LET token == ReadToken(d, offset)
    IN  IF ~token.ok THEN Panic(offset)
        ELSE IF token.val = FDT_BEGIN_NODE THEN
            LET next == NextSiblingOffset(d, offset)
            IN  IF ~next.ok THEN Panic(offset)
                ELSE Step([offset |-> offset, parent_address_space |-> parent_address_space],
                          next.val)
        ELSE IF token.val = FDT_PROP THEN
            LET next == NextPropertyOffset(d, offset + FDT_TAGSIZE)
            IN  IF ~next.ok THEN Panic(offset)
                ELSE TryNextPastEnd(d, next.val, parent_address_space)
        ELSE IF token.val = FDT_END THEN Step(NoVal, offset)
        ELSE TryNextPastEnd(d, offset + FDT_TAGSIZE, parent_address_space)

\* FdtChildIter::try_next
RECURSIVE TryNext(_, _, _)
TryNext(d, offset, parent_address_space) ==
    LET token == ReadToken(d, offset)
    IN  IF ~token.ok THEN Panic(offset)
        ELSE IF token.val = FDT_BEGIN_NODE THEN
            LET next == NextSiblingOffset(d, offset)
            IN  IF ~next.ok THEN Panic(offset)
                ELSE Step([offset |-> offset, parent_address_space |-> parent_address_space],
                          next.val)
        ELSE IF token.val = FDT_PROP THEN
            LET next == NextPropertyOffset(d, offset + FDT_TAGSIZE)
            IN  IF ~next.ok THEN Panic(offset)
                ELSE TryNext(d, next.val, parent_address_space)
        ELSE IF token.val \in {FDT_END_NODE, FDT_END} THEN Step(NoVal, offset)
        ELSE TryNext(d, offset + FDT_TAGSIZE, parent_address_space)

\* FdtChildIter::next: [panic, item, offset, address_space]
ChildStep(r, address_space) ==
    [panic |-> r.panic, item |-> r.item, offset |-> r.offset,
     address_space |-> address_space]
ChildIterNext(d, it) ==
    IF it.st = "Start"
    THEN Bind(FdtNodeAddressSpace(d, [offset |-> it.offset,
                                      parent_address_space |-> it.address_space]),
              LAMBDA as :
         Bind(FindStringEnd(d, it.offset + FDT_TAGSIZE), LAMBDA e :
            IF as.panic \/ ~e.ok
            THEN ChildStep(Panic(it.offset), it.address_space)
            ELSE ChildStep(TryNext(d, AlignTagOffset(e.val), as.val), as.val)))
    ELSE ChildStep(TryNext(d, it.offset, it.address_space), it.address_space)

----------------------------------------------------------------------------
(* From a blob to the owned tree: src/model/mod.rs, src/model/property.rs   *)

\* Fdt::memory_reservations, collected: 16-byte entries from off_mem_rsvmap up
\* to the entry whose fields are both zero.  An unaligned off_mem_rsvmap is
\* MemReserveInvalid; an entry that would pass off_dt_struct before the
\* terminator is MemReserveNotTerminated.
RECURSIVE ReadReservations(_, _, _)
ReadReservations(d, offset, acc) ==
    IF offset + MemRsvSize > Hdr(d, "off_dt_struct") \/ offset + MemRsvSize > Len(d)
    THEN Bad("MemReserveNotTerminated")
    ELSE LET r == [address |-> Slice(d, offset, 8), size |-> Slice(d, offset + 8, 8)]
         IN  IF r = TERMINATOR THEN Good(acc)
             ELSE ReadReservations(d, offset + MemRsvSize, Append(acc, r))
MemoryReservations(d) ==
    IF Hdr(d, "off_mem_rsvmap") % 8 # 0 THEN Bad("MemReserveInvalid")
    ELSE ReadReservations(d, Hdr(d, "off_mem_rsvmap"), <<>>)

\* DeviceTreeProperty::try_from(FdtProperty)
PropertyTryFrom(prop) == [name |-> prop.name, value |-> prop.value]

\* DeviceTreeNode::try_from(FdtNode): the name, every property and every
\* child, in the order of the blob.  [panic, val]
RECURSIVE NodeTryFrom(_, _), CollectProperties(_, _, _), CollectChildren(_, _, _)
CollectProperties(d, it, acc) ==
    Bind(PropIterNext(d, it), LAMBDA r :
        IF r.panic THEN [panic |-> TRUE, val |-> acc]
        ELSE IF r.item = NoVal THEN [panic |-> FALSE, val |-> acc]
        ELSE Bind(AddPropertyTo(acc, PropertyTryFrom(r.item)), LAMBDA next :
                CollectProperties(d, PropRunning(r.offset), next)))
CollectChildren(d, it, acc) ==
    Bind(ChildIterNext(d, it), LAMBDA r :
        IF r.panic THEN [panic |-> TRUE, val |-> acc]
        ELSE IF r.item = NoVal THEN [panic |-> FALSE, val |-> acc]
        ELSE Bind(NodeTryFrom(d, r.item), LAMBDA c :
                IF c.panic THEN [panic |-> TRUE, val |-> acc]
                ELSE Bind(AddChildTo(acc, c.val), LAMBDA next :
                        CollectChildren(d, ChildRunning(r.offset, r.address_space), next))))
NodeTryFrom(d, n) ==
    Bind(FdtNodeName(d, n), LAMBDA name :
        IF name.panic THEN [panic |-> TRUE, val |-> NoVal]
        ELSE Bind(CollectProperties(d, PropStart(n), NewNode(name.val)), LAMBDA props :
                IF props.panic THEN props
                ELSE CollectChildren(d, ChildStart(n), props.val)))

\* DeviceTree::from_fdt: [kind, val, err]
FromFdt(d) ==
    Bind(FdtRoot(d), LAMBDA root_node :
        IF ~root_node.ok THEN [kind |-> "Err", val |-> NoVal, err |-> root_node.err]
        ELSE Bind(NodeTryFrom(d, root_node.val), LAMBDA root :
             Bind(MemoryReservations(d), LAMBDA memory_reservations :
                IF root.panic THEN [kind |-> "Panic", val |-> NoVal, err |-> "panic"]
                ELSE IF ~memory_reservations.ok
                THEN [kind |-> "Err", val |-> NoVal, err |-> memory_reservations.err]
                ELSE [kind |-> "Ok", err |-> "",
                      val |-> [root |-> root.val,
                               memory_reservations |-> memory_reservations.val]])))

\* Fdt::from_raw: the slice is the first totalsize bytes of the memory the
\* pointer leads to, then Fdt::new.  The caller owes a header and totalsize
\* bytes of valid memory.
FdtFromRaw(mem) == FdtNew(SubSeq(mem, 1, Hdr(mem, "totalsize")))

----------------------------------------------------------------------------
(* The blob a token stream stands for, in the layout of the Device Tree     *)
(* Compiler: header, reservations at offset 40, structure block, strings   *)
(* block, no gaps; every property name once, in the order first seen.       *)

Begin(name) == [k |-> "Begin", name |-> name, value |-> <<>>]
PropItem(name, value) == [k |-> "Prop", name |-> name, value |-> value]
EndNode == [k |-> "EndNode", name |-> <<>>, value |-> <<>>]
Nop == [k |-> "Nop", name |-> <<>>, value |-> <<>>]
End == [k |-> "End", name |-> <<>>, value |-> <<>>]
Raw(word) == [k |-> "Raw", name |-> <<>>, value |-> word]

Pad4(bytes) == bytes \o Zeros((4 - (Len(bytes) % 4)) % 4)

\* The distinct property names of the stream, in the order first seen.
RECURSIVE StringTableFrom(_, _, _)
StringTableFrom(its, i, acc) ==
    IF i > Len(its) THEN acc
    ELSE IF its[i].k = "Prop" /\ ~\E j \in 1..Len(acc) : acc[j] = its[i].name
    THEN StringTableFrom(its, i + 1, Append(acc, its[i].name))
    ELSE StringTableFrom(its, i + 1, acc)
StringTable(its) == StringTableFrom(its, 1, <<>>)

\* The offset of a name in the strings block of the table.
NameOffset(table, name) ==
    LET k == CHOOSE j \in 1..Len(table) : table[j] = name
    IN  SumSeq([j \in 1..k - 1 |-> Len(table[j]) + 1])

EncodeItem(it, table) ==
    CASE it.k = "Begin" -> U32Bytes(FDT_BEGIN_NODE) \o Pad4(it.name \o <<0>>)
      [] it.k = "Prop" -> U32Bytes(FDT_PROP) \o U32Bytes(Len(it.value))
                          \o U32Bytes(NameOffset(table, it.name)) \o Pad4(it.value)
      [] it.k = "EndNode" -> U32Bytes(FDT_END_NODE)
      [] it.k = "Nop" -> U32Bytes(FDT_NOP)
      [] it.k = "End" -> U32Bytes(FDT_END)
      [] it.k = "Raw" -> it.value

RECURSIVE ConcatSeq(_)
ConcatSeq(ss) == IF ss = <<>> THEN <<>> ELSE Head(ss) \o ConcatSeq(Tail(ss))

EncodeItems(its) ==
    LET table == StringTable(its)
    IN  ConcatSeq([i \in 1..Len(its) |-> EncodeItem(its[i], table)])

EncodeStrings(its) ==
    LET table == StringTable(its)
    IN  ConcatSeq([j \in 1..Len(table) |-> table[j] \o <<0>>])

Assemble(its, reservations) ==
    LET rsv == ConcatSeq([i \in 1..Len(reservations) |-> RsvAsBytes(reservations[i])])
               \o RsvAsBytes(TERMINATOR)
        struct == EncodeItems(its)
        strings == EncodeStrings(its)
        off_dt_struct == HeaderSize + Len(rsv)
        off_dt_strings == off_dt_struct + Len(struct)
    IN  FDT_MAGIC \o U32Bytes(off_dt_strings + Len(strings)) \o U32Bytes(off_dt_struct)
        \o U32Bytes(off_dt_strings) \o U32Bytes(HeaderSize) \o U32Bytes(17) \o U32Bytes(16)
        \o U32Bytes(0) \o U32Bytes(Len(strings)) \o U32Bytes(Len(struct))
        \o rsv \o struct \o strings

\* The token stream of a tree: BEGIN_NODE, the properties, the children,
\* END_NODE; the root has the empty name; END closes the stream.
RECURSIVE NodeItems(_, _)
NodeItems(n, name) ==
    <<Begin(name)>>
    \o [i \in 1..Len(n.properties) |-> PropItem(n.properties[i].name, n.properties[i].value)]
    \o ConcatSeq([i \in 1..Len(n.children) |-> NodeItems(n.children[i], n.children[i].name)])
    \o <<EndNode>>
DtcItems(t) == NodeItems(t.root, <<>>) \o <<End>>

----------------------------------------------------------------------------
(* Path resolution: src/model/mod.rs, src/fdt/node.rs                       *)

\* str::split(sep): the runs between separators, empty runs included
RECURSIVE SplitFrom(_, _, _, _, _)
SplitFrom(str, sep, i, cur, acc) ==
    IF i > Len(str) THEN Append(acc, cur)
    ELSE IF str[i] = sep THEN SplitFrom(str, sep, i + 1, <<>>, Append(acc, cur))
    ELSE SplitFrom(str, sep, i + 1, Append(cur, str[i]), acc)
Split(str, sep) == SplitFrom(str, sep, 1, <<>>, <<>>)

\* Iterator::filter(|s| !s.is_empty())
NonEmpty(segs) == SelectSeq(segs, LAMBDA x : x # <<>>)

\* DeviceTreeNode::child_mut: the position of the child with this full name
ChildMut(n, name) ==
    IF \E i \in 1..Len(n.children) : n.children[i].name = name
    THEN CHOOSE i \in 1..Len(n.children) : n.children[i].name = name
    ELSE 0

Some(v) == [some |-> v]

\* The loop of find_node_mut over the components: the position reached, as
\* the child positions from the root.
RECURSIVE WalkMut(_, _, _, _)
WalkMut(root, at, components, i) ==
    IF i > Len(components) THEN Some(at)
    ELSE LET k == ChildMut(NodeAt(root, at), components[i])
         IN  IF k = 0 THEN NoVal ELSE WalkMut(root, Append(at, k), components, i + 1)

\* A mutant of FindNodeMut: the leading '/' is not required.
FindNodeMutAnyStart(t, p) ==
    IF p = <<SLASH>> THEN Some(<<>>)
    ELSE WalkMut(t.root, <<>>, NonEmpty(Split(p, SLASH)), 1)

\* DeviceTree::find_node_mut
FindNodeMut(t, p) ==
    IF ~(Len(p) > 0 /\ p[1] = SLASH) THEN NoVal
    ELSE IF p = <<SLASH>> THEN Some(<<>>)
    ELSE WalkMut(t.root, <<>>, NonEmpty(Split(p, SLASH)), 1)

\* str::contains('@')
ContainsAt(name) == \E i \in 1..Len(name) : name[i] = AT

\* A mutant of NameWithoutAddress: the name up to the last '@'
NameUpToLastAt(name) ==
    IF ContainsAt(name)
    THEN SubSeq(name, 1, (CHOOSE i \in 1..Len(name) :
                             name[i] = AT /\ \A j \in i + 1..Len(name) : name[j] # AT) - 1)
    ELSE name

\* FdtNode::name_without_address: the name up to the first '@'
NameWithoutAddress(name) ==
    IF ContainsAt(name)
    THEN SubSeq(name, 1, (CHOOSE i \in 1..Len(name) :
                             name[i] = AT /\ \A j \in 1..i - 1 : name[j] # AT) - 1)
    ELSE name

\* FdtNode::child: children().find(..): [panic, item]
RECURSIVE FindChildFrom(_, _, _)
FindChildFrom(d, it, name) ==
    Bind(ChildIterNext(d, it), LAMBDA r :
        IF r.panic \/ r.item = NoVal THEN [panic |-> r.panic, item |-> NoVal]
        ELSE Bind(FdtNodeName(d, r.item), LAMBDA child_name :
                IF child_name.panic THEN [panic |-> TRUE, item |-> NoVal]
                ELSE IF (IF ContainsAt(name) THEN child_name.val = name
                         ELSE NameWithoutAddress(child_name.val) = name)
                THEN [panic |-> FALSE, item |-> r.item]
                ELSE FindChildFrom(d, ChildRunning(r.offset, r.address_space), name)))
FdtNodeChild(d, n, name) == FindChildFrom(d, ChildStart(n), name)

\* Fdt::find_node: from the root, one child lookup for each non-empty segment
RECURSIVE WalkFdt(_, _, _, _)
WalkFdt(d, n, components, i) ==
    IF i > Len(components) THEN [panic |-> FALSE, item |-> n]
    ELSE Bind(FdtNodeChild(d, n, components[i]), LAMBDA c :
            IF c.panic \/ c.item = NoVal THEN c
            ELSE WalkFdt(d, c.item, components, i + 1))
FdtFindNode(d, p) ==
    IF ~(Len(p) > 0 /\ p[1] = SLASH) THEN [panic |-> FALSE, item |-> NoVal]
    ELSE WalkFdt(d, FdtRoot(d).val, NonEmpty(Split(p, SLASH)), 1)

----------------------------------------------------------------------------
(* Specification SpecHeader: Fdt::new on any buffer of HeaderInput.        *)

Idle == [st |-> "Idle", offset |-> 0]

HInit ==
    /\ data \in {HeaderBuffer(h) : h \in HeaderInput}
    /\ fdtRes = NoVal
    /\ tree = NewDeviceTree
    /\ pc = "blob"
    /\ tree2 = NoVal
    /\ dtb2 = NoVal
    /\ items = <<>>
    /\ node = NoVal
    /\ piter = Idle
    /\ citer = Idle
    /\ pout = <<>>
    /\ cout = <<>>
    /\ panicked = FALSE
    /\ path = <<>>
    /\ found = NoVal

\* let fdt = Fdt::new(data)
Open ==
    /\ pc = "blob"
    /\ fdtRes' = FdtNew(data)
    /\ pc' = "opened"
    /\ UNCHANGED <<data, tree, tree2, dtb2, items, node, piter, citer, pout, cout,
                   panicked, path, found>>

HNext == Open

SpecHeader == HInit /\ [][HNext]_vars

----------------------------------------------------------------------------
(* Claims about the header                                                 *)

\* The field that starts at a byte offset of the header, by the order in
\* which the format lists the ten 4-byte fields.
FieldAtOffset(o) == HeaderFields[(o \div 4) + 1]

Accepted == pc = "opened" /\ fdtRes.kind = "Ok"
Rejected == pc = "opened" /\ fdtRes.kind # "Ok"

VersionOk(d) == Hdr(d, "last_comp_version") <= 17 /\ 17 <= Hdr(d, "version")

\* C3: every buffer Fdt::new accepts is at least 40 bytes long, has the magic
\* 0xd00dfeed, totalsize equal to its length, last_comp_version <= 17 <=
\* version, off_mem_rsvmap <= off_dt_struct <= off_dt_strings, the structure
\* block ending at or before off_dt_strings and the strings block ending at or
\* before totalsize.
C3_AcceptedHeaderInvariants ==
    Accepted =>
        /\ Len(data) >= 40
        /\ HdrMagic(data) = <<208, 13, 254, 237>>
        /\ Hdr(data, "totalsize") = Len(data)
        /\ VersionOk(data)
        /\ Hdr(data, "off_mem_rsvmap") <= Hdr(data, "off_dt_struct")
        /\ Hdr(data, "off_dt_struct") <= Hdr(data, "off_dt_strings")
        /\ Hdr(data, "off_dt_struct") + Hdr(data, "size_dt_struct")
              <= Hdr(data, "off_dt_strings")
        /\ Hdr(data, "off_dt_strings") + Hdr(data, "size_dt_strings")
              <= Hdr(data, "totalsize")

\* A buffer was accepted whose structure block is not empty and ends exactly
\* where the strings block starts.
C3_Witness ==
    /\ Accepted
    /\ Hdr(data, "size_dt_struct") > 0
    /\ Hdr(data, "off_dt_struct") + Hdr(data, "size_dt_struct") = Hdr(data, "off_dt_strings")

\* C4: Fdt::new accepts no buffer whose off_mem_rsvmap is not a multiple of 8
\* or whose off_dt_struct is not a multiple of 4.
C4_AlignmentEnforced ==
    Accepted =>
        /\ Hdr(data, "off_mem_rsvmap") % 8 = 0
        /\ Hdr(data, "off_dt_struct") % 4 = 0

\* The layout constraints of a header, each with the fields it relates.
LayoutViolations(d) ==
    LET rsv == Hdr(d, "off_mem_rsvmap")
        st == Hdr(d, "off_dt_struct")
        sr == Hdr(d, "off_dt_strings")
        zst == Hdr(d, "size_dt_struct")
        zsr == Hdr(d, "size_dt_strings")
    IN  (IF rsv > st THEN {{"off_mem_rsvmap", "off_dt_struct"}} ELSE {})
        \cup (IF st > Len(d) THEN {{"off_dt_struct"}} ELSE {})
        \cup (IF sr > Len(d) THEN {{"off_dt_strings"}} ELSE {})
        \cup (IF st + zst > Len(d) THEN {{"off_dt_struct", "size_dt_struct"}} ELSE {})
        \cup (IF sr + zsr > Len(d) THEN {{"off_dt_strings", "size_dt_strings"}} ELSE {})
        \cup (IF st + zst > sr
              THEN {{"off_dt_struct", "size_dt_struct", "off_dt_strings"}} ELSE {})

\* C5: an error of Fdt::new names the failed check and carries the offset, in
\* the 40-byte header, of the field that failed: a short buffer gives
\* InvalidLength; a wrong magic InvalidMagic at 0; a version range without 17
\* UnsupportedVersion(version) at the version field; totalsize # len
\* InvalidLength at the totalsize field; a layout violation InvalidHeader at a
\* field of a violated constraint.  A buffer that fails no check is accepted.
C5_ErrorsNameTheField ==
    pc = "opened" =>
        LET r == fdtRes
            d == data
        IN  IF Len(d) < 40
            THEN r.kind = "InvalidLength" /\ r.offset \in 0..39
            ELSE /\ r.kind \in {"Ok", "InvalidMagic", "UnsupportedVersion",
                                "InvalidLength", "InvalidHeader"}
                 /\ r.kind # "Ok" => r.offset \in 0..39 /\ r.offset % 4 = 0
                 /\ HdrMagic(d) # <<208, 13, 254, 237>>
                      => r.kind = "InvalidMagic"
                 /\ r.kind = "InvalidMagic"
                      => HdrMagic(d) # <<208, 13, 254, 237>> /\ r.offset = 0
                 /\ r.kind = "UnsupportedVersion"
                      => /\ ~VersionOk(d)
                         /\ FieldAtOffset(r.offset) = "version"
                         /\ r.arg = Hdr(d, "version")
                 /\ r.kind = "InvalidLength"
                      => /\ Hdr(d, "totalsize") # Len(d)
                         /\ FieldAtOffset(r.offset) = "totalsize"
                 /\ r.kind = "InvalidHeader"
                      => \E c \in LayoutViolations(d) : FieldAtOffset(r.offset) \in c
                 /\ r.kind \in {"InvalidHeader", "Ok"}
                      => /\ HdrMagic(d) = <<208, 13, 254, 237>>
                         /\ VersionOk(d)
                         /\ Hdr(d, "totalsize") = Len(d)
                 /\ r.kind = "Ok" => LayoutViolations(d) = {}

\* Fdt::new reported a structure block that runs past the buffer, at the
\* size_dt_struct field (offset 36).
C5_Witness ==
    /\ Rejected
    /\ fdtRes.kind = "InvalidHeader"
    /\ fdtRes.offset = 36
    /\ Hdr(data, "off_dt_struct") + Hdr(data, "size_dt_struct") > Len(data)

----------------------------------------------------------------------------
(* Specification Spec: an owned tree is built, serialized (or compiled in   *)
(* the canonical layout), opened, read back and serialized again.          *)

MaxAdds == 4

NUL == 0
NodeNames == {<<97>>, <<98, 99, 100>>, <<97, NUL, 98>>}
PropEntries == {NewProperty(<<113, 113>>, <<1, 2, 3, 4, 5>>), NewProperty(<<112>>, <<>>)}
Reservations == {MemoryReservationNew(16, 32), MemoryReservationNew(0, 0)}
Junk == {<<>>, <<170, 85>>}

TreeSize(t) == NodeCount(t.root) + Len(t.memory_reservations)

Init ==
    /\ tree = NewDeviceTree
    /\ data = <<>>
    /\ fdtRes = NoVal
    /\ pc = "build"
    /\ tree2 = NoVal
    /\ dtb2 = NoVal
    /\ items = <<>>
    /\ node = NoVal
    /\ piter = Idle
    /\ citer = Idle
    /\ pout = <<>>
    /\ cout = <<>>
    /\ panicked = FALSE
    /\ path = <<>>
    /\ found = NoVal

\* node.add_child(DeviceTreeNode::new(name)) on a node of the tree
AddChild ==
    /\ pc = "build"
    /\ TreeSize(tree) < MaxAdds
    /\ \E p \in AllPaths(tree.root), name \in NodeNames :
          tree' = [tree EXCEPT !.root =
                      ReplaceAt(@, p, AddChildTo(NodeAt(@, p), NewNode(name)))]
    /\ UNCHANGED <<data, fdtRes, pc, tree2, dtb2, items, node, piter, citer, pout, cout,
                   panicked, path, found>>

\* node.add_property(DeviceTreeProperty::new(name, value)) on a node of the tree
AddProperty ==
    /\ pc = "build"
    /\ TreeSize(tree) < MaxAdds
    /\ \E p \in AllPaths(tree.root), prop \in PropEntries :
          tree' = [tree EXCEPT !.root = ReplaceAt(@, p, AddPropertyTo(NodeAt(@, p), prop))]
    /\ UNCHANGED <<data, fdtRes, pc, tree2, dtb2, items, node, piter, citer, pout, cout,
                   panicked, path, found>>

\* tree.memory_reservations.push(reservation)
AddReservation ==
    /\ pc = "build"
    /\ TreeSize(tree) < MaxAdds
    /\ \E r \in Reservations : tree' = [tree EXCEPT !.memory_reservations = Append(@, r)]
    /\ UNCHANGED <<data, fdtRes, pc, tree2, dtb2, items, node, piter, citer, pout, cout,
                   panicked, path, found>>

\* tree.to_dtb()
Serialize ==
    /\ pc = "build"
    /\ data' = ToDtb(tree)
    /\ pc' = "blob"
    /\ UNCHANGED <<fdtRes, tree, tree2, dtb2, items, node, piter, citer, pout, cout,
                   panicked, path, found>>

\* A tree a blob can hold: no NUL in a name, no all-zero reservation.
RECURSIVE NulFree(_)
NulFree(n) ==
    /\ \A i \in 1..Len(n.name) : n.name[i] # NUL
    /\ \A i \in 1..Len(n.properties) :
          \A j \in 1..Len(n.properties[i].name) : n.properties[i].name[j] # NUL
    /\ \A i \in 1..Len(n.children) : NulFree(n.children[i])
Representable(t) ==
    /\ NulFree(t.root)
    /\ \A i \in 1..Len(t.memory_reservations) : t.memory_reservations[i] # TERMINATOR

\* The compiler's blob of the tree; items keeps the token stream it holds.
Compile ==
    /\ pc = "build"
    /\ Representable(tree)
    /\ items' = DtcItems(tree)
    /\ data' = Assemble(items', tree.memory_reservations)
    /\ pc' = "blob"
    /\ UNCHANGED <<fdtRes, tree, tree2, dtb2, node, piter, citer, pout, cout,
                   panicked, path, found>>

\* unsafe Fdt::from_raw(ptr) on memory that holds the blob and what follows it
OpenRaw ==
    /\ pc = "blob"
    /\ \E junk \in Junk : fdtRes' = FdtFromRaw(data \o junk)
    /\ pc' = "opened"
    /\ UNCHANGED <<data, tree, tree2, dtb2, items, node, piter, citer, pout, cout,
                   panicked, path, found>>

\* DeviceTree::from_fdt(&fdt)
Read ==
    /\ pc = "opened"
    /\ fdtRes.kind = "Ok"
    /\ tree2' = FromFdt(data)
    /\ panicked' = (tree2'.kind = "Panic")
    /\ pc' = "read"
    /\ UNCHANGED <<data, fdtRes, tree, dtb2, items, node, piter, citer, pout, cout,
                   path, found>>

\* to_dtb() of the tree read back
Rewrite ==
    /\ pc = "read"
    /\ tree2.kind = "Ok"
    /\ dtb2' = ToDtb(tree2.val)
    /\ pc' = "rewritten"
    /\ UNCHANGED <<data, fdtRes, tree, tree2, items, node, piter, citer, pout, cout,
                   panicked, path, found>>

Next ==
    \/ AddChild
    \/ AddProperty
    \/ AddReservation
    \/ Serialize
    \/ Compile
    \/ Open
    \/ OpenRaw
    \/ Read
    \/ Rewrite

Spec == Init /\ [][Next]_vars

FromToDtb == items = <<>>
FromCompiler == items # <<>>

\* C1 (as stated): for any owned tree T, the tree read back from T.to_dtb()
\* through Fdt::new and DeviceTree::from_fdt equals T: root name, properties,
\* children and memory reservations, all in order.
C1_RoundTripAnyTree ==
    /\ (pc = "opened" /\ FromToDtb) => fdtRes.kind = "Ok"
    /\ (pc = "read" /\ FromToDtb) => (tree2.kind = "Ok" /\ tree2.val = tree)

\* C1 (amended): the same for every owned tree whose names hold no NUL and
\* whose memory reservations hold no entry with address 0 and size 0.
C1_RoundTripRepresentable ==
    /\ (pc = "opened" /\ FromToDtb) => fdtRes.kind = "Ok"
    /\ (pc = "read" /\ FromToDtb /\ Representable(tree))
          => (tree2.kind = "Ok" /\ tree2.val = tree)

C1_Witness ==
    /\ pc = "read" /\ FromToDtb /\ Representable(tree)
    /\ tree2.val = tree
    /\ Len(tree.memory_reservations) > 0
    /\ \E i \in 1..Len(tree.root.children) :
          /\ Len(tree.root.children[i].properties) > 0
          /\ Len(tree.root.children[i].properties[1].value) % 4 # 0

\* C2: a blob B in the canonical layout, opened with Fdt::new or with
\* Fdt::from_raw, read with from_fdt and written with to_dtb, gives B again,
\* byte for byte.
C2_BlobRoundTrip ==
    /\ (pc = "opened" /\ FromCompiler) => fdtRes.kind = "Ok"
    /\ (pc = "read" /\ FromCompiler) => tree2.kind = "Ok"
    /\ (pc = "rewritten" /\ FromCompiler) => dtb2 = data

C2_Witness ==
    /\ pc = "rewritten" /\ FromCompiler /\ dtb2 = data
    /\ Len(tree.memory_reservations) > 0
    /\ Len(tree.root.children) > 0
    /\ Len(tree.root.properties) > 1
    /\ tree.root.properties[1].name # tree.root.properties[2].name

----------------------------------------------------------------------------
(* Specification SpecIter: a blob that holds a token stream is opened and   *)
(* its nodes are walked with properties() and children().                   *)

MaxItems == 5

Letters == {"B", "E", "P", "N"}
Tails == {"close", "end", "bad"}

\* Open nodes below the root after the letters of b.
RECURSIVE Depth(_)
Depth(b) ==
    IF b = <<>> THEN 0
    ELSE Depth(SubSeq(b, 1, Len(b) - 1))
         + (CASE b[Len(b)] = "B" -> 1 [] b[Len(b)] = "E" -> -1 [] OTHER -> 0)

\* The letter sequences of at most n letters in which no END_NODE closes the
\* root.
RECURSIVE Bodies(_)
Bodies(n) ==
    IF n = 0 THEN {<<>>}
    ELSE LET shorter == Bodies(n - 1)
         IN  shorter \cup {Append(b, x) : b \in {c \in shorter : Len(c) = n - 1},
                                          x \in Letters}

ItemOf(letter, i) ==
    CASE letter = "B" -> Begin(IF i % 2 = 1 THEN <<97>> ELSE <<98, 99, 100>>)
      [] letter = "E" -> EndNode
      [] letter = "P" -> IF i % 2 = 1 THEN PropItem(<<112>>, <<>>)
                         ELSE PropItem(<<113, 113>>, <<1, 2, 3, 4, 5>>)
      [] letter = "N" -> Nop

EndNodes(n) == [i \in 1..n |-> EndNode]

Stream(b, tail) ==
    <<Begin(<<>>)>> \o [i \in 1..Len(b) |-> ItemOf(b[i], i)]
    \o (CASE tail = "close" -> EndNodes(Depth(b) + 1) \o <<End>>
          [] tail = "end" -> <<End>>
          [] tail = "bad" -> <<Raw(<<0, 0, 0, 5>>)>> \o EndNodes(Depth(b) + 1) \o <<End>>)

RECURSIVE PrefixBalanced(_)
PrefixBalanced(b) ==
    b = <<>> \/ (Depth(b) >= 0 /\ PrefixBalanced(SubSeq(b, 1, Len(b) - 1)))

\* Streams with #address-cells, #size-cells and reg: the root and its child
\* "a" each have or lack the two properties; "a" and its child "b" have reg.
CellProp(name, cells) == PropItem(name, U32Bytes(cells))
AddressCellsProps ==
    {<<>>, <<CellProp(ADDRESS_CELLS_NAME, 1)>>, <<CellProp(ADDRESS_CELLS_NAME, 2)>>}
SizeCellsProps ==
    {<<>>, <<CellProp(SIZE_CELLS_NAME, 0)>>, <<CellProp(SIZE_CELLS_NAME, 2)>>}
RegValues == {[i \in 1..n |-> i] : n \in {8, 12, 16}}
CellStream(ra, rs, ca, cs, reg) ==
    <<Begin(<<>>)>> \o ra \o rs
    \o <<Begin(<<97>>)>> \o ca \o cs \o <<PropItem(REG_NAME, reg)>>
    \o <<Begin(<<98>>), PropItem(REG_NAME, reg), EndNode, EndNode, EndNode, End>>
CellStreams ==
    {CellStream(ra, rs, ca, cs, reg) :
        ra \in AddressCellsProps, rs \in SizeCellsProps,
        ca \in AddressCellsProps, cs \in SizeCellsProps, reg \in RegValues}

ItemStreams ==
    {Stream(b, tail) : b \in {c \in Bodies(MaxItems) : PrefixBalanced(c)}, tail \in Tails}
    \cup CellStreams

IInit ==
    /\ items \in ItemStreams
    /\ data = Assemble(items, <<>>)
    /\ fdtRes = NoVal
    /\ tree = NewDeviceTree
    /\ pc = "blob"
    /\ tree2 = NoVal
    /\ dtb2 = NoVal
    /\ node = NoVal
    /\ piter = Idle
    /\ citer = Idle
    /\ pout = <<>>
    /\ cout = <<>>
    /\ panicked = FALSE
    /\ path = <<>>
    /\ found = NoVal

\* fdt.root(), then root.properties() and root.children(), which only build
\* the Start values of the iterators
Root ==
    /\ pc = "opened"
    /\ fdtRes.kind = "Ok"
    /\ node' = FdtRoot(data).val
    /\ piter' = PropStart(node')
    /\ citer' = ChildStart(node')
    /\ pout' = <<>>
    /\ cout' = <<>>
    /\ pc' = "iter"
    /\ UNCHANGED <<data, fdtRes, tree, tree2, dtb2, items, panicked, path, found>>

Ended(out) == out # <<>> /\ out[Len(out)] = NoVal

\* A mutant of PropNext: the property iterator reads at the cursor of the
\* child iterator once that one is running (one cursor shared by the two).
PropNextSharedCursor ==
    /\ pc = "iter"
    /\ ~panicked
    /\ ~Ended(pout)
    /\ \E r \in {PropIterNext(data, IF citer.st = "Running"
                                     THEN PropRunning(citer.offset) ELSE piter)} :
          /\ panicked' = r.panic
          /\ piter' = IF r.panic THEN piter ELSE PropRunning(r.offset)
          /\ pout' = IF r.panic THEN pout ELSE Append(pout, r.item)
    /\ UNCHANGED <<data, fdtRes, tree, pc, tree2, dtb2, items, node, citer, cout,
                   path, found>>

\* next() on the property iterator; pout keeps what it has returned
PropNext ==
    /\ pc = "iter"
    /\ ~panicked
    /\ ~Ended(pout)
    /\ \E r \in {PropIterNext(data, piter)} :
          /\ panicked' = r.panic
          /\ piter' = IF r.panic THEN piter ELSE PropRunning(r.offset)
          /\ pout' = IF r.panic THEN pout ELSE Append(pout, r.item)
    /\ UNCHANGED <<data, fdtRes, tree, pc, tree2, dtb2, items, node, citer, cout,
                   path, found>>

\* next() on the child iterator; cout keeps what it has returned
ChildNext ==
    /\ pc = "iter"
    /\ ~panicked
    /\ ~Ended(cout)
    /\ \E r \in {ChildIterNext(data, citer)} :
          /\ panicked' = r.panic
          /\ citer' = IF r.panic THEN citer ELSE ChildRunning(r.offset, r.address_space)
          /\ cout' = IF r.panic THEN cout ELSE Append(cout, r.item)
    /\ UNCHANGED <<data, fdtRes, tree, pc, tree2, dtb2, items, node, piter, pout,
                   path, found>>

\* the walk goes on in a child the iterator has returned
Descend ==
    /\ pc = "iter"
    /\ ~panicked
    /\ \E k \in 1..Len(cout) :
          /\ cout[k] # NoVal
          /\ node' = cout[k]
    /\ piter' = PropStart(node')
    /\ citer' = ChildStart(node')
    /\ pout' = <<>>
    /\ cout' = <<>>
    /\ found' = NoVal
    /\ UNCHANGED <<data, fdtRes, tree, pc, tree2, dtb2, items, panicked, path>>

\* node.reg(), collected; found keeps the result for the node of the walk
ReadReg ==
    /\ pc = "iter"
    /\ ~panicked
    /\ \E r \in {FdtNodeReg(data, node)} :
          /\ found' = r
          /\ panicked' = (r.kind = "Panic")
    /\ UNCHANGED <<data, fdtRes, tree, pc, tree2, dtb2, items, node, piter, citer,
                   pout, cout, path>>

INext ==
    \/ Open
    \/ Root
    \/ PropNext
    \/ ChildNext
    \/ Descend
    \/ ReadReg

SpecIter == IInit /\ [][INext]_vars

\* The offset of every token of the stream in the blob, and the end of the
\* structure block after the last.
RECURSIVE ItemOffsetsFrom(_, _, _, _)
ItemOffsetsFrom(its, table, i, acc) ==
    IF i > Len(its) THEN acc
    ELSE ItemOffsetsFrom(its, table, i + 1,
                         Append(acc, acc[Len(acc)] + Len(EncodeItem(its[i], table))))
ItemOffsets(its) ==
    ItemOffsetsFrom(its, StringTable(its), 1, <<HeaderSize + MemRsvSize>>)

IndexOf(offs, o) == CHOOSE i \in 1..Len(offs) : offs[i] = o

\* The PROP tokens from token j on, up to the first token that is neither PROP
\* nor NOP.
RECURSIVE PropsFrom(_, _)
PropsFrom(its, j) ==
    IF j > Len(its) THEN <<>>
    ELSE IF its[j].k = "Nop" THEN PropsFrom(its, j + 1)
    ELSE IF its[j].k = "Prop" THEN <<j>> \o PropsFrom(its, j + 1)
    ELSE <<>>

\* The BEGIN_NODE tokens at depth 0 from token j on, up to the END_NODE at
\* depth 0 or END.
RECURSIVE KidsFrom(_, _, _)
KidsFrom(its, j, depth) ==
    IF j > Len(its) THEN <<>>
    ELSE IF its[j].k = "Begin"
    THEN (IF depth = 0 THEN <<j>> ELSE <<>>) \o KidsFrom(its, j + 1, depth + 1)
    ELSE IF its[j].k = "EndNode"
    THEN (IF depth = 0 THEN <<>> ELSE KidsFrom(its, j + 1, depth - 1))
    ELSE IF its[j].k = "End" THEN <<>>
    ELSE KidsFrom(its, j + 1, depth)

\* The token at which the walk of the children from token j stops.
RECURSIVE StopFrom(_, _, _)
StopFrom(its, j, depth) ==
    IF j > Len(its) THEN j
    ELSE IF its[j].k = "Begin" THEN StopFrom(its, j + 1, depth + 1)
    ELSE IF its[j].k = "EndNode"
    THEN (IF depth = 0 THEN j ELSE StopFrom(its, j + 1, depth - 1))
    ELSE IF its[j].k = "End" THEN j
    ELSE StopFrom(its, j + 1, depth)

\* The token after the END_NODE that matches the BEGIN_NODE at token j.
RECURSIVE AfterMatch(_, _, _)
AfterMatch(its, j, depth) ==
    IF j > Len(its) THEN j
    ELSE IF its[j].k = "Begin" THEN AfterMatch(its, j + 1, depth + 1)
    ELSE IF its[j].k = "EndNode"
    THEN (IF depth = 1 THEN j + 1 ELSE AfterMatch(its, j + 1, depth - 1))
    ELSE AfterMatch(its, j + 1, depth)
AfterSubtree(its, j) == AfterMatch(its, j + 1, 1)

\* Open nodes (the root included) before token j.
RECURSIVE OpenBefore(_, _)
OpenBefore(its, j) ==
    IF j <= 1 THEN 0
    ELSE OpenBefore(its, j - 1)
         + (CASE its[j - 1].k = "Begin" -> 1 [] its[j - 1].k = "EndNode" -> -1 [] OTHER -> 0)

NoRaw(its) == \A j \in 1..Len(its) : its[j].k # "Raw"
\* Every node is closed before END (well formed), or only the root is open.
Walkable(its) == NoRaw(its) /\ OpenBefore(its, Len(its)) <= 1
WellFormed(its) == NoRaw(its) /\ OpenBefore(its, Len(its)) = 0

Yielded(out) == IF Ended(out) THEN SubSeq(out, 1, Len(out) - 1) ELSE out

\* C6: no operation on an accepted blob panics: the walk of any blob ends in
\* values or error values.
C6_NeverPanics == ~panicked

\* The C string at an offset of the blob is the name.
NameAt(d, offset, name) ==
    /\ offset + Len(name) < Len(d)
    /\ Slice(d, offset, Len(name)) = name
    /\ d[offset + Len(name) + 1] = 0
    /\ \A j \in 1..Len(name) : name[j] # 0

\* C7: the property iterator of a node yields, in stream order, exactly the
\* PROP entries before the first BEGIN_NODE, END_NODE or END, skipping NOP;
\* each has the name at nameoff in the strings block and the len bytes at
\* cursor + 12; the cursor is then at align4(cursor + 12 + len).
C7_PropertyIterator ==
    (pc = "iter" /\ NoRaw(items)) =>
        \A offs \in {ItemOffsets(items)} :
        \A exp \in {PropsFrom(items, IndexOf(offs, node.offset) + 1)} :
        \A got \in {Yielded(pout)} :
            /\ panicked => ~Walkable(items)
            /\ Len(got) <= Len(exp)
            /\ Ended(pout) => Len(got) = Len(exp)
            /\ \A k \in 1..Len(got) :
                  /\ got[k].name = items[exp[k]].name
                  /\ got[k].value = items[exp[k]].value
                  /\ got[k].value_offset = offs[exp[k]] + 12
                  /\ Slice(data, got[k].value_offset - 12, 4) = U32Bytes(FDT_PROP)
                  /\ Be32(data, got[k].value_offset - 8) = Len(got[k].value)
                  /\ got[k].value = Slice(data, got[k].value_offset, Len(got[k].value))
                  /\ NameAt(data, Hdr(data, "off_dt_strings")
                                  + Be32(data, got[k].value_offset - 4), got[k].name)
            /\ (got # <<>> /\ ~Ended(pout)) =>
                  piter.offset = AlignTagOffset(got[Len(got)].value_offset
                                                + Len(got[Len(got)].value))

C7_Witness ==
    /\ pc = "iter" /\ WellFormed(items) /\ Ended(pout) /\ Len(pout) = 3
    /\ pout[1].name # pout[2].name
    /\ Len(pout[1].value) = 5
    /\ \E j \in 1..Len(items) : items[j].k = "Nop" /\ ItemOffsets(items)[j] < pout[1].value_offset

\* C8: the child iterator of a node yields each direct child once, in stream
\* order, and no grandchild; PROP and NOP are skipped; after a child the
\* cursor is at the token after the END_NODE that matches it; the walk stops
\* at the node's own END_NODE or at END.
C8_ChildIterator ==
    (pc = "iter" /\ Walkable(items)) =>
        \A offs \in {ItemOffsets(items)} :
        \A i \in {IndexOf(offs, node.offset)} :
        \A exp \in {KidsFrom(items, i + 1, 0)} :
        \A got \in {Yielded(cout)} :
            /\ ~panicked
            /\ Len(got) <= Len(exp)
            /\ Ended(cout) =>
                  /\ Len(got) = Len(exp)
                  /\ citer.offset = offs[StopFrom(items, i + 1, 0)]
                  /\ items[StopFrom(items, i + 1, 0)].k \in {"EndNode", "End"}
            /\ \A k \in 1..Len(got) : got[k].offset = offs[exp[k]]
            /\ (got # <<>> /\ ~Ended(cout)) =>
                  citer.offset = offs[AfterSubtree(items, exp[Len(got)])]

C8_Witness ==
    /\ pc = "iter" /\ WellFormed(items) /\ Ended(cout) /\ Len(cout) = 2
    /\ node.offset = Hdr(data, "off_dt_struct")
    /\ items[2].k = "Prop"
    /\ \E j \in 1..Len(items) - 1 :
          /\ ItemOffsets(items)[j] = cout[1].offset
          /\ items[j + 1].k = "Begin"

\* C9: an iterator that meets END while inside a node reports BadToken: it
\* never ends with None on an END token.
EndsAtEnd(out, it) ==
    Ended(out) /\ it.st = "Running" /\ ReadToken(data, it.offset) = Good(FDT_END)
C9_EndInsideNodeIsBadToken ==
    pc = "iter" => (~EndsAtEnd(pout, piter) /\ ~EndsAtEnd(cout, citer))

----------------------------------------------------------------------------
(* Specification SpecPath: a path is resolved on an owned tree and on the   *)
(* read view of its blob.                                                   *)

MaxPathLen == 5

PathBytes == {SLASH, 97, 98, AT}

RECURSIVE PathsUpTo(_)
PathsUpTo(n) ==
    IF n = 0 THEN {<<>>}
    ELSE LET shorter == PathsUpTo(n - 1)
         IN  shorter \cup {Append(q, x) : q \in {c \in shorter : Len(c) = n - 1},
                                          x \in PathBytes}

Leaf(name) == NewNode(name)
PathTrees ==
    {[root |-> AddChildTo(AddChildTo(NewNode(<<SLASH>>),
                                     AddChildTo(NewNode(<<97>>), Leaf(<<98>>))),
                          Leaf(<<98>>)),
      memory_reservations |-> <<>>],
     [root |-> AddChildTo(AddChildTo(NewNode(<<SLASH>>),
                                     AddChildTo(NewNode(<<97, AT, 98>>), Leaf(<<97>>))),
                          AddChildTo(NewNode(<<97>>), Leaf(<<98>>))),
      memory_reservations |-> <<>>],
     [root |-> AddChildTo(AddChildTo(AddChildTo(NewNode(<<SLASH>>),
                                                Leaf(<<98, AT, 97, AT, 98>>)),
                                     AddChildTo(Leaf(<<98, AT, 97>>), Leaf(<<97, AT>>))),
                          Leaf(<<98>>)),
      memory_reservations |-> <<>>]}

PInit ==
    /\ tree \in PathTrees
    /\ path \in PathsUpTo(MaxPathLen)
    /\ data = ToDtb(tree)
    /\ fdtRes = NoVal
    /\ pc = "blob"
    /\ tree2 = NoVal
    /\ dtb2 = NoVal
    /\ items = <<>>
    /\ node = NoVal
    /\ piter = Idle
    /\ citer = Idle
    /\ pout = <<>>
    /\ cout = <<>>
    /\ panicked = FALSE
    /\ found = NoVal

\* tree.find_node_mut(path)
ResolveMut ==
    /\ pc = "blob"
    /\ found' = FindNodeMut(tree, path)
    /\ pc' = "found_mut"
    /\ UNCHANGED <<data, fdtRes, tree, tree2, dtb2, items, node, piter, citer, pout, cout,
                   panicked, path>>

\* fdt.find_node(path)
ResolveFdt ==
    /\ pc = "opened"
    /\ fdtRes.kind = "Ok"
    /\ \E r \in {FdtFindNode(data, path)} :
          /\ panicked' = r.panic
          /\ found' = IF r.item = NoVal THEN NoVal ELSE Some(r.item)
    /\ pc' = "found_fdt"
    /\ UNCHANGED <<data, fdtRes, tree, tree2, dtb2, items, node, piter, citer, pout, cout,
                   path>>

\* The k-th item of a child iterator: children().nth(k - 1)
RECURSIVE NthChild(_, _, _)
NthChild(d, it, k) ==
    Bind(ChildIterNext(d, it), LAMBDA r :
        IF r.panic \/ r.item = NoVal \/ k = 1 THEN [panic |-> r.panic, item |-> r.item]
        ELSE NthChild(d, ChildRunning(r.offset, r.address_space), k - 1))

\* A walk from the node n down the child positions q, joining the full names
\* of the nodes on the way with '/': [panic, item, path]
RECURSIVE FdtWalkTo(_, _, _, _)
FdtWalkTo(d, n, q, p) ==
    IF q = <<>> THEN [panic |-> FALSE, item |-> n, path |-> p]
    ELSE Bind(NthChild(d, ChildStart(n), Head(q)), LAMBDA c :
            IF c.panic \/ c.item = NoVal
            THEN [panic |-> c.panic, item |-> NoVal, path |-> p]
            ELSE Bind(FdtNodeName(d, c.item), LAMBDA child_name :
                    IF child_name.panic
                    THEN [panic |-> TRUE, item |-> NoVal, path |-> p]
                    ELSE FdtWalkTo(d, c.item, Tail(q),
                                   p \o <<SLASH>> \o child_name.val)))

\* The same walk on the owned tree: the path of the node at position q.
RECURSIVE WalkTo(_, _, _)
WalkTo(n, q, p) ==
    IF q = <<>> THEN p
    ELSE WalkTo(n.children[Head(q)], Tail(q),
                p \o <<SLASH>> \o n.children[Head(q)].name)

\* The path of the root is "/".
RootOr(p) == IF p = <<>> THEN <<SLASH>> ELSE p

\* node.child(name) on a node reached by a walk from the root
LookupChild ==
    /\ pc = "opened"
    /\ fdtRes.kind = "Ok"
    /\ \E q \in AllPaths(tree.root) :
       \E w \in {FdtWalkTo(data, FdtRoot(data).val, q, <<>>)} :
          /\ ~w.panic /\ w.item # NoVal
          /\ node' = q
          /\ \E r \in {FdtNodeChild(data, w.item, path)} :
                /\ panicked' = r.panic
                /\ found' = IF r.item = NoVal THEN NoVal ELSE Some(r.item)
    /\ pc' = "found_child"
    /\ UNCHANGED <<data, fdtRes, tree, tree2, dtb2, items, piter, citer, pout, cout, path>>

\* fdt.find_node(p) for the path p of a node reached by a walk from the root
WalkAndFindFdt ==
    /\ pc = "opened"
    /\ fdtRes.kind = "Ok"
    /\ \E q \in AllPaths(tree.root) :
       \E w \in {FdtWalkTo(data, FdtRoot(data).val, q, <<>>)} :
          /\ ~w.panic /\ w.item # NoVal
          /\ node' = Some(w.item)
          /\ path' = RootOr(w.path)
          /\ \E r \in {FdtFindNode(data, RootOr(w.path))} :
                /\ panicked' = r.panic
                /\ found' = IF r.item = NoVal THEN NoVal ELSE Some(r.item)
    /\ pc' = "walked_fdt"
    /\ UNCHANGED <<data, fdtRes, tree, tree2, dtb2, items, piter, citer, pout, cout>>

\* tree.find_node_mut(p) for the path p of a node reached by a walk from the root
WalkAndFindMut ==
    /\ pc = "blob"
    /\ \E q \in AllPaths(tree.root) :
          /\ node' = Some(q)
          /\ path' = RootOr(WalkTo(tree.root, q, <<>>))
          /\ found' = FindNodeMut(tree, RootOr(WalkTo(tree.root, q, <<>>)))
    /\ pc' = "walked_mut"
    /\ UNCHANGED <<data, fdtRes, tree, tree2, dtb2, items, piter, citer, pout, cout,
                   panicked>>

PNext ==
    \/ Open
    \/ ResolveMut
    \/ ResolveFdt
    \/ LookupChild
    \/ WalkAndFindFdt
    \/ WalkAndFindMut

SpecPath == PInit /\ [][PNext]_vars

\* The non-empty runs of the path between '/', in order.
IsRun(p, a, b) ==
    /\ a <= b
    /\ \A i \in a..b : p[i] # SLASH
    /\ a = 1 \/ p[a - 1] = SLASH
    /\ b = Len(p) \/ p[b + 1] = SLASH
RunStarts(p) == {a \in 1..Len(p) : \E b \in a..Len(p) : IsRun(p, a, b)}
RunFrom(p, a) == SubSeq(p, a, CHOOSE b \in a..Len(p) : IsRun(p, a, b))
RECURSIVE SortedRuns(_, _)
SortedRuns(p, starts) ==
    IF starts = {} THEN <<>>
    ELSE LET a == CHOOSE x \in starts : \A y \in starts : x <= y
         IN  <<RunFrom(p, a)>> \o SortedRuns(p, starts \ {a})
Segments(p) == SortedRuns(p, RunStarts(p))

\* A segment matches a child of the owned tree by its full name; on the read
\* view a segment without '@' matches the name up to its '@'.
MatchesOwned(seg, name) == name = seg
MatchesFdt(seg, name) ==
    IF ContainsAt(seg) THEN name = seg ELSE NameWithoutAddress(name) = seg

\* The position q follows the segments: every step is the first child the
\* segment matches.
Follows(root, q, segs, Matches(_, _)) ==
    /\ Len(q) = Len(segs)
    /\ \A k \in 1..Len(q) :
          LET parent == NodeAt(root, SubSeq(q, 1, k - 1))
          IN  /\ Matches(segs[k], parent.children[q[k]].name)
              /\ \A j \in 1..q[k] - 1 : ~Matches(segs[k], parent.children[j].name)

\* The offset in to_dtb's blob of the node at a position of the tree.
RECURSIVE OffsetOfNode(_, _, _)
OffsetOfNode(n, base, q) ==
    IF q = <<>> THEN base
    ELSE OffsetOfNode(n.children[Head(q)],
            base + FDT_TAGSIZE + AlignTagOffset(Len(n.name) + 1)
            + SumSeq([i \in 1..Len(n.properties) |->
                        CalculatePropSize(StringMapNew, n.properties[i]).size])
            + SumSeq([j \in 1..Head(q) - 1 |->
                        CalculateNodeSize(StringMapNew, n.children[j]).size]),
            Tail(q))

HasLeadingSlash(p) == Len(p) > 0 /\ p[1] = SLASH

\* C10: a path resolves only if it begins with '/'; its non-empty segments
\* are resolved one by one from the root; "/" is the root; the empty string,
\* a path without the leading '/', and a path with a segment that matches no
\* child are absent.  The same on the owned tree and on the read view.
C10_PathResolution ==
    /\ pc = "found_mut" =>
          /\ ~HasLeadingSlash(path) => found = NoVal
          /\ path = <<SLASH>> => found = Some(<<>>)
          /\ HasLeadingSlash(path) =>
                \A segs \in {Segments(path)} :
                    /\ found # NoVal =>
                          Follows(tree.root, found.some, segs, MatchesOwned)
                    /\ found = NoVal =>
                          ~\E q \in AllPaths(tree.root) :
                              Follows(tree.root, q, segs, MatchesOwned)
    /\ pc = "found_fdt" =>
          /\ ~panicked
          /\ ~HasLeadingSlash(path) => found = NoVal
          /\ path = <<SLASH>> =>
                found = Some(FdtNodeNew(Hdr(data, "off_dt_struct")))
          /\ HasLeadingSlash(path) =>
                \A segs \in {Segments(path)} :
                    /\ found # NoVal =>
                          \E q \in AllPaths(tree.root) :
                              /\ Follows(tree.root, q, segs, MatchesFdt)
                              /\ found.some.offset =
                                    OffsetOfNode(tree.root, Hdr(data, "off_dt_struct"), q)
                    /\ found = NoVal =>
                          ~\E q \in AllPaths(tree.root) :
                              Follows(tree.root, q, segs, MatchesFdt)

C10_Witness ==
    /\ pc = "found_mut"
    /\ found # NoVal
    /\ Len(found.some) = 2
    /\ \E i \in 1..Len(path) - 1 : path[i] = SLASH /\ path[i + 1] = SLASH

\* s is the child name cut before its first '@' (the whole name without one).
BeforeAt(name, s) ==
    /\ Len(s) <= Len(name)
    /\ \A i \in 1..Len(s) : s[i] = name[i] /\ s[i] # AT
    /\ Len(s) = Len(name) \/ name[Len(s) + 1] = AT
HasAt(s) == \E i \in 1..Len(s) : s[i] = AT
ChildMatches(requested, name) ==
    IF HasAt(requested) THEN name = requested ELSE BeforeAt(name, requested)

\* C11: node.child(name) is the first child, in the order of the children,
\* whose full name is the requested name when that has an '@', and whose name
\* cut before its first '@' is the requested name otherwise; it is absent
\* when no child matches.
C11_ChildLookup ==
    pc = "found_child" =>
        /\ ~panicked
        /\ \A kids \in {NodeAt(tree.root, node).children} :
              /\ found # NoVal =>
                    \E k \in 1..Len(kids) :
                        /\ ChildMatches(path, kids[k].name)
                        /\ \A j \in 1..k - 1 : ~ChildMatches(path, kids[j].name)
                        /\ found.some.offset =
                              OffsetOfNode(tree.root, Hdr(data, "off_dt_struct"),
                                           Append(node, k))
              /\ found = NoVal =>
                    \A k \in 1..Len(kids) : ~ChildMatches(path, kids[k].name)

\* A request without '@' finds a child with two '@' in its name, ahead of later
\* children that match as well.
C11_Witness ==
    /\ pc = "found_child"
    /\ node = <<>>
    /\ path = <<98>>
    /\ found # NoVal
    /\ found.some.offset = OffsetOfNode(tree.root, Hdr(data, "off_dt_struct"), <<1>>)
    /\ tree.root.children[1].name = <<98, AT, 97, AT, 98>>

\* C12: the path made of the full names on the way to a node of the tree
\* resolves to that node, on the owned tree and on the read view, also when
\* siblings differ only by a unit address.
C12_PathLookupIdempotent ==
    /\ pc = "walked_mut" => found = node
    /\ pc = "walked_fdt" =>
          /\ ~panicked
          /\ found # NoVal
          /\ found.some.offset = node.some.offset

----------------------------------------------------------------------------
(* Specification SpecRsv: the memory reservations of a blob whose           *)
(* reservation block holds any entries, with or without a terminator.       *)

MaxRsv == 3

RsvEntries == {MemoryReservationNew(a, z) : a \in {0, 16}, z \in {0, 32}}
RsvOffsets == {HeaderSize, HeaderSize + 4, HeaderSize + 8}

RECURSIVE RsvBlocks(_)
RsvBlocks(n) ==
    IF n = 0 THEN {<<>>}
    ELSE LET shorter == RsvBlocks(n - 1)
         IN  shorter \cup {Append(b, e) : b \in {c \in shorter : Len(c) = n - 1},
                                          e \in RsvEntries}

\* A blob with the entries right after the header, then the structure block
\* of an empty root; off_mem_rsvmap is given.
RsvBlob(entries, off_mem_rsvmap) ==
    HeaderAsBytes([magic |-> FDT_MAGIC,
                   totalsize |-> HeaderSize + MemRsvSize * Len(entries) + 16,
                   off_dt_struct |-> HeaderSize + MemRsvSize * Len(entries),
                   off_dt_strings |-> HeaderSize + MemRsvSize * Len(entries) + 16,
                   off_mem_rsvmap |-> off_mem_rsvmap,
                   version |-> FDT_VERSION,
                   last_comp_version |-> LAST_COMP_VERSION,
                   boot_cpuid_phys |-> 0,
                   size_dt_strings |-> 0,
                   size_dt_struct |-> 16])
    \o ConcatSeq([i \in 1..Len(entries) |-> RsvAsBytes(entries[i])])
    \o U32Bytes(FDT_BEGIN_NODE) \o Zeros(4) \o U32Bytes(FDT_END_NODE)
    \o U32Bytes(FDT_END)

RInit ==
    /\ data \in {RsvBlob(b, off) : b \in RsvBlocks(MaxRsv), off \in RsvOffsets}
    /\ fdtRes = NoVal
    /\ tree = NewDeviceTree
    /\ pc = "blob"
    /\ tree2 = NoVal
    /\ dtb2 = NoVal
    /\ items = <<>>
    /\ node = NoVal
    /\ piter = Idle
    /\ citer = Idle
    /\ pout = <<>>
    /\ cout = <<>>
    /\ panicked = FALSE
    /\ path = <<>>
    /\ found = NoVal

RNext ==
    \/ Open
    \/ Read

SpecRsv == RInit /\ [][RNext]_vars

\* The i-th 16-byte entry from off_mem_rsvmap, counted from 0.
EntryAt(d, i) ==
    [address |-> SubSeq(d, Hdr(d, "off_mem_rsvmap") + 16 * i + 1,
                           Hdr(d, "off_mem_rsvmap") + 16 * i + 8),
     size    |-> SubSeq(d, Hdr(d, "off_mem_rsvmap") + 16 * i + 9,
                           Hdr(d, "off_mem_rsvmap") + 16 * i + 16)]
BothZero(e) == \A i \in 1..8 : e.address[i] = 0 /\ e.size[i] = 0
EntryFits(d, i) ==
    /\ Hdr(d, "off_mem_rsvmap") + 16 * (i + 1) <= Hdr(d, "off_dt_struct")
    /\ Hdr(d, "off_mem_rsvmap") + 16 * (i + 1) <= Len(d)
Terminators(d) ==
    {i \in 0..(Len(d) \div 16) : EntryFits(d, i) /\ BothZero(EntryAt(d, i))}

\* C13: the reservations of a blob are the 16-byte entries from
\* off_mem_rsvmap, in order, before the first entry whose address and size
\* are both zero; an entry with one zero field is one of them; without such
\* an entry before off_dt_struct the result is MemReserveNotTerminated.
C13_MemoryReservations ==
    (pc = "read" /\ Hdr(data, "off_mem_rsvmap") % 8 = 0) =>
        \A terms \in {Terminators(data)} :
            IF terms = {}
            THEN tree2.kind = "Err" /\ tree2.err = "MemReserveNotTerminated"
            ELSE \A n \in {CHOOSE i \in terms : \A j \in terms : i <= j} :
                    /\ tree2.kind = "Ok"
                    /\ tree2.val.memory_reservations =
                          [i \in 1..n |-> EntryAt(data, i - 1)]

\* Two entries with one zero field each are yielded before the terminator.
C13_Witness ==
    /\ pc = "read"
    /\ Hdr(data, "off_mem_rsvmap") = HeaderSize
    /\ tree2.kind = "Ok"
    /\ tree2.val.memory_reservations =
          <<MemoryReservationNew(0, 32), MemoryReservationNew(16, 0)>>

----------------------------------------------------------------------------
(* The blob of to_dtb, under Spec.                                          *)

\* C14: Fdt::new accepts the bytes of to_dtb of every owned tree, and
\* Fdt::from_raw accepts them in a larger memory.
C14_ToDtbAccepted ==
    (FromToDtb /\ pc \in {"opened", "read", "rewritten"}) =>
        /\ data = ToDtb(tree)
        /\ fdtRes = Ok

\* The tree has two reservations, a child with a NUL in its name and a
\* property whose value is not a multiple of 4 bytes long.
C14_Witness ==
    /\ FromToDtb /\ pc = "opened" /\ fdtRes = Ok
    /\ Len(tree.memory_reservations) = 2
    /\ \E i \in 1..Len(tree.root.children) :
          /\ tree.root.children[i].name = <<97, NUL, 98>>
          /\ Len(tree.root.children[i].properties) = 1
          /\ Len(tree.root.children[i].properties[1].value) = 5

\* The bytes a node takes in the structure block, as the layout defines them.
Align4(x) == ((x + 3) \div 4) * 4
RECURSIVE EmittedNodeSize(_)
EmittedNodeSize(n) ==
    4 + Align4(Len(n.name) + 1)
    + SumSeq([i \in 1..Len(n.properties) |-> 12 + Align4(Len(n.properties[i].value))])
    + SumSeq([j \in 1..Len(n.children) |-> EmittedNodeSize(n.children[j])])
    + 4

\* C15: the header of to_dtb's blob has magic 0xd00dfeed, version 17,
\* last_comp_version 16, boot_cpuid_phys 0, off_mem_rsvmap 40, off_dt_struct
\* 40 + 16 * (n + 1) for n reservations, size_dt_struct the bytes of the node
\* tree plus the 4 bytes of END, off_dt_strings right after the structure
\* block, and totalsize the end of the strings block and the length of the
\* buffer; the structure block it delimits starts with BEGIN_NODE and ends
\* with END.
C15_HeaderDescribesBlob ==
    (FromToDtb /\ pc = "blob") =>
        /\ HdrMagic(data) = <<208, 13, 254, 237>>
        /\ Hdr(data, "version") = 17
        /\ Hdr(data, "last_comp_version") = 16
        /\ Hdr(data, "boot_cpuid_phys") = 0
        /\ Hdr(data, "off_mem_rsvmap") = 40
        /\ Hdr(data, "off_dt_struct") = 40 + 16 * (Len(tree.memory_reservations) + 1)
        /\ Hdr(data, "size_dt_struct") = EmittedNodeSize(tree.root) + 4
        /\ Hdr(data, "off_dt_strings")
              = Hdr(data, "off_dt_struct") + Hdr(data, "size_dt_struct")
        /\ Hdr(data, "totalsize")
              = Hdr(data, "off_dt_strings") + Hdr(data, "size_dt_strings")
        /\ Hdr(data, "totalsize") = Len(data)
        /\ SubSeq(data, Hdr(data, "off_dt_struct") + 1, Hdr(data, "off_dt_struct") + 4)
              = <<0, 0, 0, 1>>
        /\ SubSeq(data, Hdr(data, "off_dt_strings") - 3, Hdr(data, "off_dt_strings"))
              = <<0, 0, 0, 9>>

\* One reservation, and a child "bcd" with a property of 5 value bytes: the
\* structure block takes 48 bytes from offset 72.
C15_Witness ==
    /\ FromToDtb /\ pc = "blob"
    /\ Len(tree.memory_reservations) = 1
    /\ Len(tree.root.children) = 1
    /\ tree.root.children[1].name = <<98, 99, 100>>
    /\ Len(tree.root.children[1].properties) = 1
    /\ Len(tree.root.children[1].properties[1].value) = 5
    /\ Hdr(data, "off_dt_struct") = 72
    /\ Hdr(data, "size_dt_struct") = 48

\* The property names of a tree in the order of a depth-first walk, a node's
\* properties before its children, and the first occurrences among them.
RECURSIVE PropNamesDfs(_)
PropNamesDfs(n) ==
    [i \in 1..Len(n.properties) |-> n.properties[i].name]
    \o ConcatSeq([j \in 1..Len(n.children) |-> PropNamesDfs(n.children[j])])
FirstSeen(names) ==
    SelectSeq([i \in 1..Len(names) |->
                  IF \E j \in 1..i - 1 : names[j] = names[i] THEN <<>> ELSE <<names[i]>>],
              LAMBDA x : x # <<>>)
\* The running sum of len + 1 of the names before the k-th.
RunningOffset(names, k) == SumSeq([i \in 1..k - 1 |-> Len(names[i][1]) + 1])
IndexOfName(names, name) == CHOOSE k \in 1..Len(names) : names[k][1] = name

\* Where the PROP tokens of a node and of its subtrees lie, the node being
\* at base: a sequence of [at, name].
RECURSIVE PropSites(_, _)
PropSites(n, base) ==
    [i \in 1..Len(n.properties) |->
        [at |-> base + 4 + Align4(Len(n.name) + 1)
                + SumSeq([k \in 1..i - 1 |-> 12 + Align4(Len(n.properties[k].value))]),
         name |-> n.properties[i].name]]
    \o ConcatSeq([j \in 1..Len(n.children) |->
          PropSites(n.children[j],
                    base + 4 + Align4(Len(n.name) + 1)
                    + SumSeq([k \in 1..Len(n.properties) |->
                                12 + Align4(Len(n.properties[k].value))])
                    + SumSeq([k \in 1..j - 1 |-> EmittedNodeSize(n.children[k])]))])

\* C16: every distinct property name has one offset, the running sum of
\* len + 1 of the distinct names first seen before it in a depth-first walk
\* (properties before children); the strings block is those names in that
\* order, each followed by NUL; size_dt_strings is its length; the nameoff of
\* every PROP is the start of a NUL-terminated copy of the property's name.
C16_StringInterning ==
    (FromToDtb /\ pc = "blob") =>
        \A names \in {FirstSeen(PropNamesDfs(tree.root))} :
        \A strs \in {Hdr(data, "off_dt_strings")} :
            /\ Hdr(data, "size_dt_strings") = RunningOffset(names, Len(names) + 1)
            /\ SubSeq(data, strs + 1, Len(data))
                  = ConcatSeq([k \in 1..Len(names) |-> names[k][1] \o <<0>>])
            /\ \A sites \in {PropSites(tree.root, Hdr(data, "off_dt_struct"))} :
               \A s \in 1..Len(sites) :
               \A nameoff \in {Be32(data, sites[s].at + 8)} :
                  /\ SubSeq(data, sites[s].at + 1, sites[s].at + 4) = <<0, 0, 0, 3>>
                  /\ nameoff = RunningOffset(names, IndexOfName(names, sites[s].name))
                  /\ SubSeq(data, strs + nameoff + 1,
                                  strs + nameoff + Len(sites[s].name) + 1)
                        = sites[s].name \o <<0>>

\* The root has a property "qq" added after its child, the child has "p" and
\* "qq": "qq" is first in the walk and is stored once.
C16_Witness ==
    /\ FromToDtb /\ pc = "blob"
    /\ Len(tree.root.properties) = 1
    /\ tree.root.properties[1].name = <<113, 113>>
    /\ Len(tree.root.children) = 1
    /\ Len(tree.root.children[1].properties) = 2
    /\ tree.root.children[1].properties[1].name = <<112>>
    /\ tree.root.children[1].properties[2].name = <<113, 113>>
    /\ Hdr(data, "size_dt_strings") = 5
    /\ SubSeq(data, Hdr(data, "off_dt_strings") + 1, Len(data)) = <<113, 113, 0, 112, 0>>

\* The structure block of the blob, as the header delimits it.
StructBlock(d) ==
    SubSeq(d, Hdr(d, "off_dt_struct") + 1,
              Hdr(d, "off_dt_struct") + Hdr(d, "size_dt_struct"))

\* The structure block is, for each node, BEGIN_NODE and the name, the
\* properties in the order of the node's sequence, the child subtrees in the
\* order of the node's children, END_NODE; END closes it.
EmittedInOrder ==
    StructBlock(data) = EncodeItems(NodeItems(tree.root, tree.root.name) \o <<End>>)

\* C17 (as stated): after any sequence of add_property and add_child calls,
\* to_dtb emits each node as BEGIN_NODE, name, properties in insertion order,
\* child subtrees in insertion order, END_NODE, and the tree read back from
\* the blob has the properties and children in the same orders.
C17_OrderAnyTree ==
    /\ (FromToDtb /\ pc = "blob") => EmittedInOrder
    /\ (FromToDtb /\ pc = "read") =>
          (EmittedInOrder /\ tree2.kind = "Ok" /\ tree2.val.root = tree.root)

\* C17 (amended): the emission is in that order for every tree; the tree read
\* back has the same properties and children in the same orders when no
\* node or property name holds a NUL.
C17_OrderNulFree ==
    /\ (FromToDtb /\ pc = "blob") => EmittedInOrder
    /\ (FromToDtb /\ pc = "read") =>
          /\ EmittedInOrder
          /\ NulFree(tree.root) => (tree2.kind = "Ok" /\ tree2.val.root = tree.root)

\* The root got "p" before "qq" and the child "bcd" before "a", and is read
\* back so.
C17_Witness ==
    /\ FromToDtb /\ pc = "read"
    /\ Len(tree.root.properties) = 2
    /\ tree.root.properties[1].name = <<112>>
    /\ tree.root.properties[2].name = <<113, 113>>
    /\ Len(tree.root.children) = 2
    /\ tree.root.children[1].name = <<98, 99, 100>>
    /\ tree.root.children[2].name = <<97>>
    /\ tree2.kind = "Ok"
    /\ tree2.val.root = tree.root

\* C18: DeviceTree::new() is a tree whose root has the empty name, no
\* properties and no children, and which has no memory reservations.
C18_NewTreeIsEmpty ==
    (pc = "build" /\ TreeSize(tree) = 0) =>
        tree = [root |-> [name |-> <<>>, properties |-> <<>>, children |-> <<>>],
                memory_reservations |-> <<>>]

----------------------------------------------------------------------------
(* Specification SpecProp: the decoders of a property value.                *)

MaxValueLen == 5

\* Values: a run of small bytes, then nothing, or a word, or a text with a
\* two-byte character, a cut character, a stray continuation byte or a
\* three-byte character.
ValueBytes == {0, 1, 97}
ValueTails ==
    {<<>>, <<18, 52, 86, 120>>, <<97, 195, 169, 0>>, <<97, 195, 0>>, <<97, 169, 0>>,
     <<97, 226, 130, 172, 0>>}
RECURSIVE ValueRuns(_)
ValueRuns(n) ==
    IF n = 0 THEN {<<>>}
    ELSE LET shorter == ValueRuns(n - 1)
         IN  shorter \cup {Append(q, x) : q \in {c \in shorter : Len(c) = n - 1},
                                          x \in ValueBytes}
PropValues == {a \o b : a \in ValueRuns(MaxValueLen), b \in ValueTails}

VInit ==
    /\ data \in PropValues
    /\ fdtRes = NoVal
    /\ tree = NewDeviceTree
    /\ pc = "value"
    /\ tree2 = NoVal
    /\ dtb2 = NoVal
    /\ items = <<>>
    /\ node = NoVal
    /\ piter = Idle
    /\ citer = Idle
    /\ pout = <<>>
    /\ cout = <<>>
    /\ panicked = FALSE
    /\ path = <<>>
    /\ found = NoVal

\* prop.as_u32()
DecodeU32 ==
    /\ pc = "value"
    /\ found' = AsU32(data)
    /\ pc' = "as_u32"
    /\ UNCHANGED <<data, fdtRes, tree, tree2, dtb2, items, node, piter, citer, pout, cout,
                   panicked, path>>

\* prop.as_u64()
DecodeU64 ==
    /\ pc = "value"
    /\ found' = AsU64(data)
    /\ pc' = "as_u64"
    /\ UNCHANGED <<data, fdtRes, tree, tree2, dtb2, items, node, piter, citer, pout, cout,
                   panicked, path>>

\* prop.as_str()
DecodeStr ==
    /\ pc = "value"
    /\ found' = AsStr(data)
    /\ pc' = "as_str"
    /\ UNCHANGED <<data, fdtRes, tree, tree2, dtb2, items, node, piter, citer, pout, cout,
                   panicked, path>>

\* let mut str_list = prop.as_str_list(): the iterator holds the value in path
\* and what it yielded in pout
DecodeStrList ==
    /\ pc = "value"
    /\ path' = data
    /\ pout' = <<>>
    /\ pc' = "str_list"
    /\ UNCHANGED <<data, fdtRes, tree, tree2, dtb2, items, node, piter, citer, cout,
                   panicked, found>>

\* str_list.next(), also after it has returned None
StrListIterNext ==
    /\ pc \in {"str_list", "str_list_done"}
    /\ \E r \in {StringListNext(path)} :
          /\ path' = r.value
          /\ pout' = IF r.item = NoVal THEN pout ELSE Append(pout, r.item.some)
          /\ pc' = IF r.item = NoVal THEN "str_list_done" ELSE pc
          /\ r.item # NoVal => pc = "str_list"
    /\ UNCHANGED <<data, fdtRes, tree, tree2, dtb2, items, node, piter, citer, cout,
                   panicked, found>>

\* The layouts of as_prop_encoded_array: the cells of each field.
Layouts == {<<>>, <<0>>, <<1>>, <<2>>, <<1, 1>>, <<0, 1>>, <<2, 1>>}

\* prop.as_prop_encoded_array(fields_cells), collected; path keeps the layout
DecodeArray ==
    /\ pc = "value"
    /\ \E fields_cells \in Layouts :
          /\ path' = fields_cells
          /\ found' = AsPropEncodedArray(data, fields_cells)
          /\ panicked' = (found'.kind = "Panic")
    /\ pc' = "array"
    /\ UNCHANGED <<data, fdtRes, tree, tree2, dtb2, items, node, piter, citer, pout, cout>>

\* size_of::<T>() for T = u32 and T = u64
IntSizes == {4, 8}

\* Cells(cells).to_int::<T>(), and address::<T>() and size::<T>() of a Reg
\* whose address and size are both these cells; path keeps size_of::<T>()
CombineCells ==
    /\ pc = "value"
    /\ Len(data) % 4 = 0
    /\ \E size_of_t \in IntSizes : \E cells \in {RefFromBytes(data)} :
          /\ path' = <<size_of_t>>
          /\ found' = [to_int |-> CellsToInt(cells, size_of_t),
                        address |-> RegAddress([address |-> cells, size |-> cells], size_of_t),
                        size |-> RegSize([address |-> cells, size |-> cells], size_of_t)]
    /\ pc' = "cells"
    /\ UNCHANGED <<data, fdtRes, tree, tree2, dtb2, items, node, piter, citer, pout, cout,
                   panicked>>

VNext ==
    \/ CombineCells
    \/ DecodeArray
    \/ DecodeU32
    \/ DecodeU64
    \/ DecodeStr
    \/ DecodeStrList
    \/ StrListIterNext

SpecProp == VInit /\ [][VNext]_vars

\* The number whose big-endian digits in base 256 are the bytes.
RECURSIVE BigEndian(_)
BigEndian(b) ==
    IF b = <<>> THEN 0 ELSE BigEndian(SubSeq(b, 1, Len(b) - 1)) * 256 + b[Len(b)]

\* C19: as_u32 is the big-endian number of a value of exactly 4 bytes and
\* InvalidLength for every other length, 0 and 8 among them; as_u64 is the
\* big-endian number of a value of exactly 8 bytes and InvalidLength for
\* every other length.
C19_FixedWidthIntegers ==
    /\ pc = "as_u32" =>
          IF Len(data) = 4
          THEN found.ok /\ found.val = BigEndian(data)
          ELSE ~found.ok /\ found.err = "InvalidLength"
    /\ pc = "as_u64" =>
          IF Len(data) = 8
          THEN /\ found.ok
               /\ found.val = [i \in 1..4 |-> BigEndian(SubSeq(data, 2 * i - 1, 2 * i))]
          ELSE ~found.ok /\ found.err = "InvalidLength"

\* The four bytes 12 34 56 78 are the u32 0x12345678.
C19_Witness ==
    /\ pc = "as_u32"
    /\ data = <<18, 52, 86, 120>>
    /\ found = Good(305419896)

\* One character of UTF-8: the shortest code of a scalar value.
IsChar(c) ==
    CASE Len(c) = 1 -> c[1] <= 127
      [] Len(c) = 2 ->
            /\ c[1] \in 192..223 /\ c[2] \in 128..191
            /\ (c[1] - 192) * 64 + (c[2] - 128) >= 128
      [] Len(c) = 3 ->
            /\ c[1] \in 224..239 /\ c[2] \in 128..191 /\ c[3] \in 128..191
            /\ \A cp \in {(c[1] - 224) * 4096 + (c[2] - 128) * 64 + (c[3] - 128)} :
                  cp >= 2048 /\ ~(cp \in 55296..57343)
      [] Len(c) = 4 ->
            /\ c[1] \in 240..247 /\ \A k \in 2..4 : c[k] \in 128..191
            /\ \A cp \in {(c[1] - 240) * 262144 + (c[2] - 128) * 4096
                            + (c[3] - 128) * 64 + (c[4] - 128)} :
                  cp >= 65536 /\ cp <= 1114111
      [] OTHER -> FALSE
\* The bytes are a sequence of characters.
RECURSIVE IsText(_)
IsText(b) ==
    \/ b = <<>>
    \/ \E k \in 1..4 :
          /\ k <= Len(b)
          /\ IsChar(SubSeq(b, 1, k))
          /\ IsText(SubSeq(b, k + 1, Len(b)))

\* C20: as_str succeeds exactly when the value is valid UTF-8 whose only NUL
\* is its last byte; the result is then the value without that NUL; in every
\* other case it is InvalidString.
C20_AsStr ==
    pc = "as_str" =>
        IF /\ Len(data) > 0
           /\ \A i \in 1..Len(data) : (data[i] = 0) <=> (i = Len(data))
           /\ IsText(data)
        THEN found = Good(SubSeq(data, 1, Len(data) - 1))
        ELSE found = Bad("InvalidString")

\* The value "a\xc3\xa9" with its NUL is the string of two characters.
C20_Witness ==
    /\ pc = "as_str"
    /\ data = <<97, 97, 195, 169, 0>>
    /\ found = Good(<<97, 97, 195, 169>>)

\* The value is a list of strings: each a text without NUL, followed by NUL.
IsStringList(value) == value = <<>> \/ (value[Len(value)] = 0 /\ IsText(value))

\* C21: on the concatenation of the NUL-free strings of a list, each
\* followed by NUL, as_str_list yields the strings of the list in order and
\* then ends; on the empty value it yields nothing.
C21_StrListRoundTrip ==
    (pc \in {"str_list", "str_list_done"} /\ IsStringList(data)) =>
        /\ \A i \in 1..Len(pout) : \A j \in 1..Len(pout[i]) : pout[i][j] # 0
        /\ ConcatSeq([i \in 1..Len(pout) |-> pout[i] \o <<0>>]) \o path = data
        /\ pc = "str_list_done" => path = <<>>

\* The list "a", "", "a\xc3\xa9" is yielded whole.
C21_Witness ==
    /\ pc = "str_list_done"
    /\ data = <<97, 0, 0, 97, 195, 169, 0>>
    /\ pout = <<<<97>>, <<>>, <<97, 195, 169>>>>

\* C22: with chunk = 4 * sum of the layout, a value whose length is not a
\* multiple of chunk fails with PropEncodedArraySizeMismatch carrying the
\* length and the sum; otherwise there are len / chunk tuples, the i-th
\* field of each has as many 4-byte cells as the layout says, and all fields
\* of all tuples, in order, are the value.
C22_PropEncodedArray ==
    pc = "array" =>
        \A chunk \in {4 * SumSeq(path)} :
            IF ~\E q \in 0..Len(data) : Len(data) = q * chunk
            THEN found = [kind |-> "PropEncodedArraySizeMismatch", val |-> <<>>,
                          size |-> Len(data), chunk |-> SumSeq(path)]
            ELSE chunk > 0 =>
                    /\ found.kind = "Ok"
                    /\ Len(found.val) * chunk = Len(data)
                    /\ \A j \in 1..Len(found.val) :
                          /\ Len(found.val[j]) = Len(path)
                          /\ \A i \in 1..Len(path) :
                                /\ Len(found.val[j][i]) = path[i]
                                /\ \A w \in 1..path[i] : Len(found.val[j][i][w]) = 4
                    /\ ConcatSeq([j \in 1..Len(found.val) |->
                          ConcatSeq([i \in 1..Len(path) |->
                             ConcatSeq(found.val[j][i])])]) = data

\* Eight bytes under the layout [1]: two tuples of one cell each.
C22_Witness ==
    /\ pc = "array"
    /\ path = <<1>>
    /\ data = <<0, 0, 1, 97, 18, 52, 86, 120>>
    /\ found.kind = "Ok"
    /\ found.val = << <<<<<<0, 0, 1, 97>>>>>>, <<<<<<18, 52, 86, 120>>>>>> >>

\* C23: for every k, on a value of exactly 4 * k bytes the layout [k] gives
\* one chunk of k cells.
C23_OneChunkOfKCells ==
    (pc = "array" /\ Len(path) = 1 /\ Len(data) = 4 * path[1]) =>
        /\ found.kind = "Ok"
        /\ Len(found.val) = 1
        /\ Len(found.val[1][1]) = path[1]

\* C24: cells that take more bytes than T give, from to_int, address and
\* size alike, the error that carries the number of cells; otherwise all
\* three give the same integer, whose big-endian bytes are the cells in
\* order after leading zero bytes.
C24_CellsToInteger ==
    pc = "cells" =>
        \A t \in {path[1]} : \A r \in {found.to_int, found.address, found.size} :
            IF Len(data) > t
            THEN ~r.ok /\ r.cells = Len(data) \div 4
            ELSE r.ok /\ r.val = BitsOf([i \in 1..t - Len(data) |-> 0] \o data)

\* C25: a string-list sequence ends only when its value is used up; on a
\* value with a missing final NUL or invalid UTF-8 it does not end with
\* bytes left over and no error element yielded (the sequence's elements
\* are strings, so an ended sequence with bytes left has ended silently).
C25_NoSilentEnd ==
    pc = "str_list_done" => path = <<>>

\* C26: the walk of the root's tokens ends only on the root's END_NODE, the
\* token after it is END, and no walk ends on an END met while a node is
\* still open; BEGIN_NODE and END_NODE are counted as the depth of the
\* subtree skip, PROP and NOP change nothing.
AtRoot == node # NoVal /\ node = FdtRoot(data).val
C26_StructureStateMachine ==
    (pc = "iter" /\ AtRoot /\ Ended(cout)) =>
        /\ citer.st = "Running"
        /\ ReadToken(data, citer.offset) = Good(FDT_END_NODE)
        /\ ReadToken(data, citer.offset + FDT_TAGSIZE) = Good(FDT_END)

\* The value of the first property called name among the properties of the
\* node at token j, read as a u32, or the default.
CellsOfNode(its, j, name, default) ==
    LET ps == PropsFrom(its, j + 1)
        hits == {k \in 1..Len(ps) : its[ps[k]].name = name}
    IN  IF hits = {} THEN default
        ELSE LET v == its[ps[CHOOSE k \in hits : \A h \in hits : k <= h]].value
             IN  IF Len(v) = 4 THEN BigEndian(v) ELSE default
AddressSpaceOfNode(its, j) ==
    [address_cells |-> CellsOfNode(its, j, ADDRESS_CELLS_NAME, 2),
     size_cells |-> CellsOfNode(its, j, SIZE_CELLS_NAME, 1)]

\* The BEGIN_NODE tokens before token i whose subtree holds token i.
Ancestors(its, i) ==
    {j \in 1..i - 1 : its[j].k = "Begin" /\ AfterSubtree(its, j) > i}
\* The address space a node at token i is in: its parent's, or 2 and 1 for
\* the root.
ParentAddressSpace(its, i) ==
    IF Ancestors(its, i) = {} THEN [address_cells |-> 2, size_cells |-> 1]
    ELSE AddressSpaceOfNode(its, CHOOSE j \in Ancestors(its, i) :
                                     \A h \in Ancestors(its, i) : h <= j)

\* The value of the node's reg property, or none.
RegOfNode(its, j) ==
    LET ps == PropsFrom(its, j + 1)
        hits == {k \in 1..Len(ps) : its[ps[k]].name = REG_NAME}
    IN  IF hits = {} THEN NoVal
        ELSE [some |-> its[ps[CHOOSE k \in hits : \A h \in hits : k <= h]].value]

\* reg is the value cut into pairs of a cells and z cells.
SplitBy(reg, value, a, z) ==
    IF Len(value) % (4 * (a + z)) # 0
    THEN reg.kind = "PropEncodedArraySizeMismatch"
    ELSE /\ reg.kind = "Ok"
         /\ Len(reg.val) = Len(value) \div (4 * (a + z))
         /\ \A t \in 1..Len(reg.val) :
               /\ Len(reg.val[t]) = 2
               /\ Len(reg.val[t][1]) = a
               /\ Len(reg.val[t][2]) = z
         /\ ConcatSeq([t \in 1..Len(reg.val) |->
                          ConcatSeq(reg.val[t][1]) \o ConcatSeq(reg.val[t][2])]) = value

\* C27: every node yielded by children() carries the #address-cells and
\* #size-cells of the node being iterated, 2 and 1 where it lacks them; the
\* root carries 2 and 1; reg() cuts the value into (address, size) pairs
\* by the cell counts of the parent, not by the node's own.
C27_ParentAddressSpace ==
    (pc = "iter" /\ Walkable(items)) =>
        \A i \in {IndexOf(ItemOffsets(items), node.offset)} :
            /\ AtRoot => node.parent_address_space = [address_cells |-> 2, size_cells |-> 1]
            /\ node.parent_address_space = ParentAddressSpace(items, i)
            /\ \A k \in 1..Len(Yielded(cout)) :
                  cout[k].parent_address_space = AddressSpaceOfNode(items, i)
            /\ found # NoVal =>
                  \A v \in {RegOfNode(items, i)} :
                  \A as \in {ParentAddressSpace(items, i)} :
                      IF v = NoVal THEN found.kind = "None"
                      ELSE SplitBy(found, v.some, as.address_cells, as.size_cells)

\* reg() of a node whose own cell counts differ from its parent's: 12 bytes
\* in an address space of 1 and 2 cells are one pair, where the node's own
\* 2 and 1 cells would cut the address after 8 bytes.
C27_Witness ==
    /\ pc = "iter" /\ found # NoVal /\ found.kind = "Ok"
    /\ node.parent_address_space = [address_cells |-> 1, size_cells |-> 2]
    /\ FdtNodeAddressSpace(data, node).val = [address_cells |-> 2, size_cells |-> 1]
    /\ found.val = <<<< <<<<1, 2, 3, 4>>>>, <<<<5, 6, 7, 8>>, <<9, 10, 11, 12>>>> >>>>
    /\ Ended(cout) /\ Len(cout) = 2
    /\ cout[1].parent_address_space = [address_cells |-> 2, size_cells |-> 1]

Last(out) == out[Len(out)]

\* A next() that yielded an element moved the cursor forward to an aligned
\* offset inside the structure block.
Advanced(before, after) ==
    /\ after.st = "Running"
    /\ before.offset < after.offset
    /\ after.offset % 4 = 0
    /\ after.offset <= StructEnd(data)

\* C29: on a well-formed structure block a next() of a property or child
\* iterator that yields an element leaves the cursor greater than before,
\* 4-byte aligned and at most off_dt_struct + size_dt_struct; one that
\* returns None leaves the cursor on the token that stopped it, where a
\* further next() returns None again and leaves the cursor where it is; an
\* iterator has returned at most as many times as the stream has tokens.
C29_CursorProgress ==
    [][(pc = "iter" /\ WellFormed(items) /\ node' = node) =>
          /\ pout' # pout =>
                /\ Len(pout') <= Len(items)
                /\ IF Last(pout') # NoVal THEN Advanced(piter, piter')
                   ELSE /\ ReadToken(data, piter'.offset).ok
                        /\ ReadToken(data, piter'.offset).val
                              \in {FDT_BEGIN_NODE, FDT_END_NODE, FDT_END}
                        /\ PropIterNext(data, piter') = Step(NoVal, piter'.offset)
          /\ cout' # cout =>
                /\ Len(cout') <= Len(items)
                /\ IF Last(cout') # NoVal THEN Advanced(citer, citer')
                   ELSE /\ ReadToken(data, citer'.offset).ok
                        /\ ReadToken(data, citer'.offset).val \in {FDT_END_NODE, FDT_END}
                        /\ ChildIterNext(data, citer')
                              = ChildStep(Step(NoVal, citer'.offset), citer'.address_space)
      ]_vars

\* Both iterators of a node with properties, NOPs and children have run to
\* their end; the property iterator stopped on the first BEGIN_NODE and the
\* child iterator on the node's END_NODE.
C29_Witness ==
    /\ pc = "iter" /\ WellFormed(items)
    /\ Ended(pout) /\ Len(pout) >= 2
    /\ Ended(cout) /\ Len(cout) >= 2
    /\ piter.st = "Running" /\ ReadToken(data, piter.offset) = Good(FDT_BEGIN_NODE)
    /\ citer.st = "Running" /\ ReadToken(data, citer.offset) = Good(FDT_END_NODE)
    /\ piter.offset < citer.offset
    /\ \E j \in 1..Len(items) : items[j].k = "Nop"

\* The orders in which the entries of a map can come out of it.
Orders(entries) ==
    {f \in [1..Cardinality(entries) -> entries] : \A e \in entries : \E i \in DOMAIN f : f[i] = e}

\* A mutant of SortByOffset: the entries are left in the order they came in.
SortByOffsetNot(entries) == entries

\* items.sort_unstable_by_key(|(_s, offset)| *offset)
RECURSIVE SortByOffset(_)
SortByOffset(entries) ==
    IF entries = <<>> THEN <<>>
    ELSE LET sorted == SortByOffset(Tail(entries))
             e == Head(entries)
             k == Cardinality({i \in 1..Len(sorted) : sorted[i][2] < e[2]})
         IN  SubSeq(sorted, 1, k) \o <<e>> \o SubSeq(sorted, k + 1, Len(sorted))

\* StringMap::write_string_block when string_map.into_iter() gives the
\* entries in the order of the sequence entries
WriteStringBlockIn(entries, dtb) ==
    dtb \o ConcatSeq([i \in 1..Len(entries) |-> SortByOffset(entries)[i][1] \o <<0>>])

\* dtb is what to_dtb returns for t, in whatever order the string map gives
\* its entries.
IsToDtbOf(dtb, t) ==
    \A sm \in {GenerateHeader(t, StringMapNew).sm} :
    \A entries \in Orders(sm.string_map) :
        dtb = WriteStringBlockIn(entries, SubSeq(dtb, 1, Hdr(dtb, "off_dt_strings")))

====
